---- MODULE Spec2Model ----
(***************************************************************************)
(* A model of the stack-vm repository: the bytecode interpreter of         *)
(* src/stack-vm.c (values, reference-counted heap, environment chain,      *)
(* operand stack) and the single-pass compiler of src/stack-vm-compiler.c  *)
(* (parser over a token sequence, bytecode emission).                      *)
(*                                                                         *)
(* Text is a sequence of byte values (ASCII codes); a double is an         *)
(* integer (only whole, non-negative numbers occur in the model).  The     *)
(* interpreter's state is threaded through the helper operators as one     *)
(* record m (the StackVM fields, the heap, the environments, the exit      *)
(* status and what was printed); each action stores the record's fields    *)
(* back into the variables.  malloc is taken to succeed.                   *)
(***************************************************************************)
EXTENDS Integers, Sequences, FiniteSets

VARIABLES
    stack,        \* StackVM.stack[0 .. sp-1]; sp is Len(stack)
    current_env,  \* StackVM.current_env: an index of envs, or NULL
    call_stack,   \* StackVM.call_stack[0 .. call_sp-1]
    heap,         \* the objects made by create_object, in allocation order
    envs,         \* the Env structures made by create_env
    status,       \* where the process is: running, or how it stopped
    err,          \* which diagnostic a fatal stop printed
    output,       \* the texts written by OP_PRINT, in order
    steps,        \* instructions executed so far
    scope_entry,  \* history: for each scope entered and not yet left, what was
                  \* visible when OP_PUSH_ENV ran
    bytecode,     \* the buffer handed to vm_execute
    ip,           \* vm_execute's instruction pointer
    tokens,       \* the token sequence the lexer hands to the parser
    pos,          \* how many tokens the parser has consumed
    bc,           \* Parser.bytecode[0 .. bc_pos-1]
    pstate,       \* where the parser is: in parse_program, in parse_block, done, failed
    iters,        \* iterations of the parser's statement loops since a token was consumed
    lexer         \* the Lexer: source, pos, line, col, current token (character level)

vmvars == <<stack, current_env, call_stack, heap, envs, status, err, output>>
runvars == <<bytecode, ip>>
parsevars == <<tokens, pos, bc, pstate, iters, lexer>>
vars == <<stack, current_env, call_stack, heap, envs, status, err, output, steps,
          scope_entry, bytecode, ip, tokens, pos, bc, pstate, iters, lexer>>

----------------------------------------------------------------------------
(* Bounds of the model *)

\* heap objects a run may allocate
MaxHeap == 2
\* instructions a run of the instruction-stream specification executes
MaxSteps == 6
\* Env structures that may be live at once
MaxEnvs == 2

----------------------------------------------------------------------------
(* Program constants *)

MAX_PROPS == 64
MAX_VARS == 32
STACK_SIZE == 64
CALL_STACK_SIZE == 16

VAL_NUMBER == 0
VAL_STRING == 1
VAL_BOOLEAN == 2
VAL_UNDEFINED == 3
VAL_NULL == 4
VAL_OBJECT == 5

OP_PUSH_NUM == 0
OP_PUSH_STR == 1
OP_PUSH_BOOL == 2
OP_PUSH_UNDEFINED == 3
OP_PUSH_NULL == 4
OP_PUSH_VAR == 5
OP_STORE_VAR == 6
OP_ADD == 7
OP_CALL == 8
OP_RET == 9
OP_PRINT == 10
OP_EXIT == 11
OP_NEW_OBJECT == 12
OP_SET_PROP == 13
OP_GET_PROP == 14
OP_PUSH_ENV == 15
OP_POP_ENV == 16

\* the null pointer
NULL == 0

----------------------------------------------------------------------------
(* Texts the interpreter writes *)

TXT_true == <<116, 114, 117, 101>>
TXT_false == <<102, 97, 108, 115, 101>>
TXT_undefined == <<117, 110, 100, 101, 102, 105, 110, 101, 100>>
TXT_null == <<110, 117, 108, 108>>
TXT_object == <<91, 111, 98, 106, 101, 99, 116, 32, 79, 98, 106, 101, 99, 116, 93>>

\* the decimal digits of a whole number n >= 0
RECURSIVE Digits(_)
Digits(n) == IF n < 10 THEN <<48 + n>> ELSE Digits(n \div 10) \o <<48 + (n % 10)>>

\* printf("%g") of a whole number below 1e6
FormatG(n) == Digits(n)

\* sprintf("%.2f") of a whole number
Format2f(n) == Digits(n) \o <<46, 48, 48>>

----------------------------------------------------------------------------
(* Values *)

val_number(num) == [type |-> VAL_NUMBER, data |-> num]
val_boolean(b) == [type |-> VAL_BOOLEAN, data |-> IF b THEN 1 ELSE 0]
val_undefined == [type |-> VAL_UNDEFINED, data |-> 0]
val_null == [type |-> VAL_NULL, data |-> 0]

IsRef(v) == v.type = VAL_STRING \/ v.type = VAL_OBJECT

\* the machine state the helpers work on
Machine == [stack |-> stack, current_env |-> current_env, call_stack |-> call_stack,
            heap |-> heap, envs |-> envs, status |-> status, err |-> err,
            output |-> output]

Running(m) == m.status = "running"

\* exit(1) after a diagnostic
Fatal(m, why) == [m EXCEPT !.status = "fatal", !.err = why]

\* behaviour the C standard leaves undefined (a null or dangling dereference)
Undefined(m) == [m EXCEPT !.status = "ub"]

----------------------------------------------------------------------------
(* Memory management *)

\* create_object: a fresh header with ref_count 1; the new object is heap[Len(heap)+1]
create_object(m, type) ==
    [m EXCEPT !.heap = Append(@, [ref_count |-> 1, type |-> type, freed |-> FALSE,
                                   chars |-> <<>>, prop_names |-> <<>>,
                                   prop_values |-> <<>>])]

NewId(m) == Len(m.heap) + 1

gc_inc_ref(m, obj) ==
    IF obj = NULL \/ ~Running(m) THEN m
    ELSE IF m.heap[obj].freed THEN Undefined(m)
    ELSE [m EXCEPT !.heap[obj].ref_count = @ + 1]

\* gc_dec_ref without the test for zero: every release deallocates
gc_dec_ref_unconditional(m, obj) ==
    IF obj = NULL \/ ~Running(m) THEN m
    ELSE IF m.heap[obj].freed THEN Undefined(m)
    ELSE [m EXCEPT !.heap[obj].ref_count = @ - 1, !.heap[obj].freed = TRUE]

RECURSIVE gc_dec_ref(_, _)
RECURSIVE FreeProps(_, _, _)

val_free(m, v) == IF IsRef(v) THEN gc_dec_ref(m, v.data) ELSE m

\* the loop of gc_dec_ref over the properties of the object being freed
FreeProps(m, obj, i) ==
    IF ~Running(m) \/ i > Len(m.heap[obj].prop_values) THEN m
    ELSE FreeProps(val_free(m, m.heap[obj].prop_values[i]), obj, i + 1)

gc_dec_ref(m, obj) ==
    IF obj = NULL \/ ~Running(m) THEN m
    ELSE IF m.heap[obj].freed THEN Undefined(m)
    ELSE LET m1 == [m EXCEPT !.heap[obj].ref_count = @ - 1]
         IN  IF m1.heap[obj].ref_count = 0
             THEN LET m2 == IF m1.heap[obj].type = VAL_OBJECT
                            THEN FreeProps(m1, obj, 1) ELSE m1
                  IN  IF Running(m2) THEN [m2 EXCEPT !.heap[obj].freed = TRUE] ELSE m2
             ELSE m1

\* val_string: the state after the allocation; the value is val_string_value
val_string(m, str) == [create_object(m, VAL_STRING) EXCEPT !.heap[NewId(m)].chars = str]
val_string_value(m) == [type |-> VAL_STRING, data |-> NewId(m)]

\* val_object: an object with no properties
val_object(m) == create_object(m, VAL_OBJECT)
val_object_value(m) == [type |-> VAL_OBJECT, data |-> NewId(m)]

----------------------------------------------------------------------------
(* Environments *)

\* a search that takes every name for the first one of the array
IndexOf_any(names, name) == IF names = <<>> THEN 0 ELSE 1

\* the first index of name in a name array, 0 when it is absent
IndexOf(names, name) ==
    IF \E i \in 1..Len(names) : names[i] = name
    THEN CHOOSE i \in 1..Len(names) :
             names[i] = name /\ \A j \in 1..(i - 1) : names[j] # name
    ELSE 0

\* env_get's search without the walk to the parent
env_find_local(m, env, name) ==
    IF env = NULL THEN [env |-> NULL, idx |-> 0]
    ELSE LET i == IndexOf(m.envs[env].names, name)
         IN  IF i > 0 THEN [env |-> env, idx |-> i] ELSE [env |-> NULL, idx |-> 0]

\* env_get's search: the innermost environment of the chain from env that binds name
RECURSIVE env_find(_, _, _)

\* env_set as conventional assignment: an existing binding of an enclosing
\* environment is overwritten where it is
env_set_in_binder(m, env, name, val) ==
    IF ~Running(m) THEN m
    ELSE IF env = NULL THEN Undefined(m)
    ELSE LET f == env_find(m, env, name)
             m2 == IF IsRef(val) THEN gc_inc_ref(m, val.data) ELSE m
         IN  IF f.env # NULL
             THEN [val_free(m2, m.envs[f.env].values[f.idx])
                      EXCEPT !.envs[f.env].values[f.idx] = val]
             ELSE [m2 EXCEPT !.envs[env].names = Append(@, name),
                             !.envs[env].values = Append(@, val)]

env_find(m, env, name) ==
    IF env = NULL THEN [env |-> NULL, idx |-> 0]
    ELSE LET i == IndexOf(m.envs[env].names, name)
         IN  IF i > 0 THEN [env |-> env, idx |-> i]
             ELSE env_find(m, m.envs[env].parent, name)

\* env_get's result: the value found, val_undefined when no environment binds name
env_get_value(m, env, name) ==
    LET f == env_find(m, env, name)
    IN  IF f.env = NULL THEN val_undefined ELSE m.envs[f.env].values[f.idx]

\* env_get's effect: the returned reference is counted
env_get(m, env, name) ==
    LET val == env_get_value(m, env, name)
    IN  IF IsRef(val) THEN gc_inc_ref(m, val.data) ELSE m

\* env_set without the release of the value it overwrites
env_set_no_release(m, env, name, val) ==
    IF ~Running(m) THEN m
    ELSE IF env = NULL THEN Undefined(m)
    ELSE LET i == IndexOf(m.envs[env].names, name)
             m2 == IF IsRef(val) THEN gc_inc_ref(m, val.data) ELSE m
         IN  IF ~Running(m2) THEN m2
             ELSE IF i > 0 THEN [m2 EXCEPT !.envs[env].values[i] = val]
             ELSE IF Len(m.envs[env].names) >= MAX_VARS THEN Fatal(m, "too many variables")
             ELSE [m2 EXCEPT !.envs[env].names = Append(@, name),
                             !.envs[env].values = Append(@, val)]

\* env_set without the test of var_count against MAX_VARS
env_set_unlimited(m, env, name, val) ==
    IF ~Running(m) THEN m
    ELSE IF env = NULL THEN Undefined(m)
    ELSE LET i == IndexOf(m.envs[env].names, name)
             m1 == IF i > 0 THEN val_free(m, m.envs[env].values[i]) ELSE m
             m2 == IF IsRef(val) THEN gc_inc_ref(m1, val.data) ELSE m1
         IN  IF ~Running(m2) THEN m2
             ELSE IF i > 0 THEN [m2 EXCEPT !.envs[env].values[i] = val]
             ELSE [m2 EXCEPT !.envs[env].names = Append(@, name),
                             !.envs[env].values = Append(@, val)]

env_set(m, env, name, val) ==
    IF ~Running(m) THEN m
    ELSE IF env = NULL THEN Undefined(m)
    ELSE LET i == IndexOf(m.envs[env].names, name)
         IN  IF i > 0
             THEN LET m1 == val_free(m, m.envs[env].values[i])
                      m2 == IF IsRef(val) THEN gc_inc_ref(m1, val.data) ELSE m1
                  IN  IF Running(m2) THEN [m2 EXCEPT !.envs[env].values[i] = val] ELSE m2
             ELSE IF Len(m.envs[env].names) >= MAX_VARS THEN Fatal(m, "too many variables")
             ELSE LET m2 == IF IsRef(val) THEN gc_inc_ref(m, val.data) ELSE m
                  IN  IF Running(m2)
                      THEN [m2 EXCEPT !.envs[env].names = Append(@, name),
                                      !.envs[env].values = Append(@, val)]
                      ELSE m2

\* an Env slot that is not allocated
NoEnv == [alloc |-> FALSE, names |-> <<>>, values |-> <<>>, parent |-> NULL]

\* the slot malloc hands to create_env: the lowest one not allocated
FreeEnvSlot(m) == CHOOSE e \in 1..MaxEnvs :
                      ~m.envs[e].alloc /\ \A d \in 1..(e - 1) : m.envs[d].alloc

HasFreeEnvSlot(m) == \E e \in 1..MaxEnvs : ~m.envs[e].alloc

\* create_env: the state after the allocation; the new environment is FreeEnvSlot(m)
create_env(m, parent) ==
    [m EXCEPT !.envs[FreeEnvSlot(m)] =
                  [alloc |-> TRUE, names |-> <<>>, values |-> <<>>, parent |-> parent]]

\* the loop of free_env over the bindings
RECURSIVE FreeBindings(_, _, _)
FreeBindings(m, env, i) ==
    IF ~Running(m) \/ i > Len(m.envs[env].values) THEN m
    ELSE FreeBindings(val_free(m, m.envs[env].values[i]), env, i + 1)

\* free_env without the release of the values bound
free_env_no_release(m, env) ==
    IF ~Running(m) THEN m
    ELSE IF env = NULL THEN Undefined(m)
    ELSE [m EXCEPT !.envs[env] = NoEnv]

free_env(m, env) ==
    IF ~Running(m) THEN m
    ELSE IF env = NULL THEN Undefined(m)
    ELSE LET m1 == FreeBindings(m, env, 1)
         IN  IF Running(m1) THEN [m1 EXCEPT !.envs[env] = NoEnv] ELSE m1

----------------------------------------------------------------------------
(* The operand stack and the call stack *)

\* vm_push without the test of the stack pointer
vm_push_unchecked(m, val) ==
    IF ~Running(m) THEN m
    ELSE LET m1 == IF IsRef(val) THEN gc_inc_ref(m, val.data) ELSE m
         IN  IF Running(m1) THEN [m1 EXCEPT !.stack = Append(@, val)] ELSE m1

vm_push(m, val) ==
    IF ~Running(m) THEN m
    ELSE IF Len(m.stack) >= STACK_SIZE THEN Fatal(m, "stack overflow")
    ELSE LET m1 == IF IsRef(val) THEN gc_inc_ref(m, val.data) ELSE m
         IN  IF Running(m1) THEN [m1 EXCEPT !.stack = Append(@, val)] ELSE m1

\* vm_pop's effect; the value it returns is Top of the state before
vm_pop(m) ==
    IF ~Running(m) THEN m
    ELSE IF Len(m.stack) <= 0 THEN Fatal(m, "stack underflow")
    ELSE [m EXCEPT !.stack = SubSeq(@, 1, Len(@) - 1)]

Top(m) == m.stack[Len(m.stack)]

vm_pop_free(m) ==
    LET m1 == vm_pop(m)
    IN  IF Running(m1) THEN val_free(m1, Top(m)) ELSE m1

\* vm_call without the test of the call stack pointer
vm_call_unchecked(m, func_ip) ==
    IF ~Running(m) THEN m ELSE [m EXCEPT !.call_stack = Append(@, func_ip)]

vm_call(m, func_ip) ==
    IF ~Running(m) THEN m
    ELSE IF Len(m.call_stack) >= CALL_STACK_SIZE THEN Fatal(m, "call stack overflow")
    ELSE [m EXCEPT !.call_stack = Append(@, func_ip)]

\* (a vm_ret that leaves the address on the call stack)
vm_ret_keeping(m) ==
    IF ~Running(m) THEN m
    ELSE IF Len(m.call_stack) <= 0 THEN Fatal(m, "nothing to return to")
    ELSE m

\* vm_ret's effect; the address it returns is the last of the state before
vm_ret(m) ==
    IF ~Running(m) THEN m
    ELSE IF Len(m.call_stack) <= 0 THEN Fatal(m, "nothing to return to")
    ELSE [m EXCEPT !.call_stack = SubSeq(@, 1, Len(@) - 1)]

----------------------------------------------------------------------------
(* vm_execute: one operator per case of the switch, on the decoded operand *)

do_PUSH_NUM(m, num) == vm_push(m, val_number(num))

do_PUSH_STR(m, str) == vm_push(val_string(m, str), val_string_value(m))

do_PUSH_BOOL(m, b) == vm_push(m, val_boolean(b # 0))

do_PUSH_UNDEFINED(m) == vm_push(m, val_undefined)

do_PUSH_NULL(m) == vm_push(m, val_null)

do_NEW_OBJECT(m) == vm_push(val_object(m), val_object_value(m))

\* OP_SET_PROP without the test of property_count against MAX_PROPS
do_SET_PROP_unlimited(m, prop_name) ==
    LET m1 == vm_pop(m)
        value == Top(m)
        m2 == vm_pop(m1)
        obj_val == Top(m1)
    IN  IF ~Running(m2) THEN m2
        ELSE IF obj_val.type # VAL_OBJECT THEN Fatal(m2, "set target not an object")
        ELSE IF m2.heap[obj_val.data].freed THEN Undefined(m2)
        ELSE LET obj == obj_val.data
                 index == IndexOf(m2.heap[obj].prop_names, prop_name)
                 a == IF index = 0 THEN m2
                      ELSE val_free(m2, m2.heap[obj].prop_values[index])
                 b == IF IsRef(value) THEN gc_inc_ref(a, value.data) ELSE a
                 m3 == IF ~Running(b) THEN b
                       ELSE IF index = 0
                       THEN [b EXCEPT !.heap[obj].prop_names = Append(@, prop_name),
                                      !.heap[obj].prop_values = Append(@, value)]
                       ELSE [b EXCEPT !.heap[obj].prop_values[index] = value]
             IN  vm_push(m3, obj_val)

do_SET_PROP(m, prop_name) ==
    LET m1 == vm_pop(m)
        value == Top(m)
        m2 == vm_pop(m1)
        obj_val == Top(m1)
    IN  IF ~Running(m2) THEN m2
        ELSE IF obj_val.type # VAL_OBJECT THEN Fatal(m2, "set target not an object")
        ELSE IF m2.heap[obj_val.data].freed THEN Undefined(m2)
        ELSE LET obj == obj_val.data
                 index == IndexOf(m2.heap[obj].prop_names, prop_name)
                 m3 == IF index = 0
                       THEN IF Len(m2.heap[obj].prop_names) >= MAX_PROPS
                            THEN Fatal(m2, "too many properties")
                            ELSE LET a == IF IsRef(value)
                                          THEN gc_inc_ref(m2, value.data) ELSE m2
                                 IN  IF Running(a)
                                     THEN [a EXCEPT
                                             !.heap[obj].prop_names = Append(@, prop_name),
                                             !.heap[obj].prop_values = Append(@, value)]
                                     ELSE a
                       ELSE LET a == val_free(m2, m2.heap[obj].prop_values[index])
                                b == IF IsRef(value) THEN gc_inc_ref(a, value.data) ELSE a
                            IN  IF Running(b)
                                THEN [b EXCEPT !.heap[obj].prop_values[index] = value]
                                ELSE b
             IN  vm_push(m3, obj_val)

\* OP_GET_PROP without the type check: every target reads as having no property
do_GET_PROP_unchecked(m, prop_name) == vm_push(vm_pop(m), val_undefined)

do_GET_PROP(m, prop_name) ==
    LET m1 == vm_pop(m)
        obj_val == Top(m)
    IN  IF ~Running(m1) THEN m1
        ELSE IF obj_val.type # VAL_OBJECT THEN Fatal(m1, "get target not an object")
        ELSE IF m1.heap[obj_val.data].freed THEN Undefined(m1)
        ELSE LET obj == obj_val.data
                 index == IndexOf(m1.heap[obj].prop_names, prop_name)
                 result == IF index = 0 THEN val_undefined
                           ELSE m1.heap[obj].prop_values[index]
                 m2 == IF IsRef(result) THEN gc_inc_ref(m1, result.data) ELSE m1
                 m3 == val_free(m2, obj_val)
             IN  vm_push(m3, result)

\* OP_PUSH_VAR without the test for Undefined
do_PUSH_VAR_unchecked(m, name) ==
    vm_push(env_get(m, m.current_env, name), env_get_value(m, m.current_env, name))

do_PUSH_VAR(m, name) ==
    LET val == env_get_value(m, m.current_env, name)
        m1 == env_get(m, m.current_env, name)
    IN  IF ~Running(m1) THEN m1
        ELSE IF val.type = VAL_UNDEFINED THEN Fatal(m1, "undefined variable")
        ELSE vm_push(m1, val)

do_STORE_VAR(m, name) ==
    LET m1 == vm_pop(m)
    IN  IF Running(m1) THEN env_set(m1, m1.current_env, name, Top(m)) ELSE m1

\* (a PUSH_ENV whose new environment has no parent)
do_PUSH_ENV_detached(m) == [create_env(m, NULL) EXCEPT !.current_env = FreeEnvSlot(m)]

do_PUSH_ENV(m) == [create_env(m, m.current_env) EXCEPT !.current_env = FreeEnvSlot(m)]

do_POP_ENV(m) ==
    IF m.current_env = NULL THEN Undefined(m)
    ELSE free_env([m EXCEPT !.current_env = m.envs[m.current_env].parent], m.current_env)

\* the text OP_ADD and OP_PRINT read from a string object's chars
Chars(m, v) == m.heap[v.data].chars

\* OP_ADD's conversion of an operand to text
AddText(m, v) ==
    IF v.type = VAL_STRING THEN Chars(m, v)
    ELSE IF v.type = VAL_NUMBER THEN Format2f(v.data)
    ELSE IF v.type = VAL_BOOLEAN THEN (IF v.data # 0 THEN TXT_true ELSE TXT_false)
    ELSE IF v.type = VAL_UNDEFINED THEN TXT_undefined
    ELSE IF v.type = VAL_NULL THEN TXT_null
    ELSE TXT_object

\* a string operand whose object was already freed
Dangling(m, v) == v.type = VAL_STRING /\ m.heap[v.data].freed

\* the conversion of a Number operand leaves str_a / str_b pointing at num_str, an
\* array of the block that has ended when strcpy / strcat read through it
OutOfScope(a, b) == a.type = VAL_NUMBER \/ b.type = VAL_NUMBER

\* kept: whether the build still has num_str's bytes where the pointer points
do_ADD(m, kept) ==
    LET m1 == vm_pop(m)
        b == Top(m)
        m2 == vm_pop(m1)
        a == Top(m1)
    IN  IF ~Running(m2) THEN m2
        ELSE IF a.type = VAL_NUMBER /\ b.type = VAL_NUMBER
        THEN val_free(val_free(vm_push(m2, val_number(a.data + b.data)), a), b)
        ELSE IF a.type = VAL_STRING \/ b.type = VAL_STRING
        THEN IF Dangling(m2, a) \/ Dangling(m2, b) THEN Undefined(m2)
             ELSE IF OutOfScope(a, b) /\ ~kept THEN Undefined(m2)
             ELSE LET m3 == val_string(m2, AddText(m2, a) \o AddText(m2, b))
                      m4 == vm_push(m3, val_string_value(m2))
                  IN  val_free(val_free(m4, a), b)
        ELSE Fatal(m2, "unsupported add")

\* the text OP_PRINT writes after its prefix
PrintText(m, v) ==
    IF v.type = VAL_NUMBER THEN FormatG(v.data)
    ELSE IF v.type = VAL_STRING THEN Chars(m, v)
    ELSE IF v.type = VAL_BOOLEAN THEN (IF v.data # 0 THEN TXT_true ELSE TXT_false)
    ELSE IF v.type = VAL_UNDEFINED THEN TXT_undefined
    ELSE IF v.type = VAL_NULL THEN TXT_null
    ELSE TXT_object

do_PRINT(m) ==
    LET m1 == vm_pop(m)
        val == Top(m)
    IN  IF ~Running(m1) THEN m1
        ELSE IF Dangling(m1, val) THEN Undefined(m1)
        ELSE val_free([m1 EXCEPT !.output = Append(@, PrintText(m1, val))], val)

do_EXIT(m) == [m EXCEPT !.status = "exit"]

----------------------------------------------------------------------------
(* The interpreter over every instruction stream: each step executes one   *)
(* instruction whose opcode and operand are inputs of the step.            *)

\* operands the instruction stream draws from: "x" "y", "p" "q", "a", 1, true
Names == {<<120>>, <<121>>}
Props == {<<112>>, <<113>>}
Strs == {<<97>>}
Nums == {1}
Bools == {1}

\* vm_init, before any instruction
VmInit ==
    /\ stack = <<>>
    /\ call_stack = <<>>
    /\ heap = <<>>
    /\ envs = [e \in 1..MaxEnvs |->
                  IF e = 1 THEN [alloc |-> TRUE, names |-> <<>>, values |-> <<>>,
                                 parent |-> NULL]
                  ELSE NoEnv]
    /\ current_env = 1
    /\ status = "running"
    /\ err = "none"
    /\ output = <<>>
    /\ steps = 0
    /\ scope_entry = <<>>

ParserIdle == tokens = <<>> /\ pos = 0 /\ bc = <<>> /\ pstate = "idle" /\ iters = 0

\* a Lexer before lexer_init
NoLexer == [source |-> <<>>, pos |-> 0, line |-> 1, col |-> 1,
            current |-> [type |-> "none", lexeme |-> <<>>, line |-> 0, col |-> 0],
            st |-> "idle"]

LexerIdle == lexer = NoLexer

Init == VmInit /\ ParserIdle /\ LexerIdle /\ bytecode = <<>> /\ ip = 0

\* store a machine state back into the variables
Commit(m) ==
    /\ stack' = m.stack
    /\ current_env' = m.current_env
    /\ call_stack' = m.call_stack
    /\ heap' = m.heap
    /\ envs' = m.envs
    /\ status' = m.status
    /\ err' = m.err
    /\ output' = m.output

\* one more instruction of the stream may execute
CanStep == status = "running" /\ steps < MaxSteps

\* the environments of the chain from env outward, innermost first
RECURSIVE Chain(_, _)
Chain(m, env) == IF env = NULL THEN <<>> ELSE <<env>> \o Chain(m, m.envs[env].parent)

Binds(m, e, n) == \E i \in 1..Len(m.envs[e].names) : m.envs[e].names[i] = n

BoundValue(m, e, n) ==
    m.envs[e].values[CHOOSE i \in 1..Len(m.envs[e].names) : m.envs[e].names[i] = n]

\* what is visible under name n from env: whether some environment of the chain
\* binds it, and the value of the innermost one that does
Visible(m, env, n) ==
    LET ch == Chain(m, env)
        ks == {k \in 1..Len(ch) : Binds(m, ch[k], n)}
    IN  IF ks = {} THEN [bound |-> FALSE, val |-> val_undefined]
        ELSE LET k == CHOOSE k \in ks : \A j \in ks : k <= j
             IN  [bound |-> TRUE, val |-> BoundValue(m, ch[k], n)]

ExecScoped(m, entry) ==
    /\ Commit(m)
    /\ steps' = steps + 1
    /\ scope_entry' = entry
    /\ UNCHANGED <<bytecode, ip, tokens, pos, bc, pstate, iters, lexer>>

Exec(m) == ExecScoped(m, scope_entry)

CanAlloc == Len(heap) < MaxHeap

PUSH_NUM == \E n \in Nums : CanStep /\ Exec(do_PUSH_NUM(Machine, n))

PUSH_STR == \E s \in Strs : CanStep /\ CanAlloc /\ Exec(do_PUSH_STR(Machine, s))

PUSH_BOOL == \E b \in Bools : CanStep /\ Exec(do_PUSH_BOOL(Machine, b))

PUSH_UNDEFINED == CanStep /\ Exec(do_PUSH_UNDEFINED(Machine))

PUSH_NULL == CanStep /\ Exec(do_PUSH_NULL(Machine))

NEW_OBJECT == CanStep /\ CanAlloc /\ Exec(do_NEW_OBJECT(Machine))

SET_PROP == \E p \in Props : CanStep /\ Exec(do_SET_PROP(Machine, p))

GET_PROP == \E p \in Props : CanStep /\ Exec(do_GET_PROP(Machine, p))

PUSH_VAR == \E n \in Names : CanStep /\ Exec(do_PUSH_VAR(Machine, n))

STORE_VAR == \E n \in Names : CanStep /\ Exec(do_STORE_VAR(Machine, n))

PUSH_ENV ==
    /\ CanStep
    /\ HasFreeEnvSlot(Machine)
    /\ ExecScoped(do_PUSH_ENV(Machine),
                  Append(scope_entry, [n \in Names |-> Visible(Machine, current_env, n)]))

POP_ENV ==
    /\ CanStep
    /\ ExecScoped(do_POP_ENV(Machine),
                  IF scope_entry = <<>> THEN <<>>
                  ELSE SubSeq(scope_entry, 1, Len(scope_entry) - 1))

\* OP_ADD allocates when it concatenates
AddAllocates ==
    /\ Len(stack) >= 2
    /\ stack[Len(stack)].type = VAL_STRING \/ stack[Len(stack) - 1].type = VAL_STRING

ADD ==
    \E kept \in BOOLEAN :
        CanStep /\ (AddAllocates => CanAlloc) /\ Exec(do_ADD(Machine, kept))

PRINT == CanStep /\ Exec(do_PRINT(Machine))

EXIT == CanStep /\ Exec(do_EXIT(Machine))

\* main, after vm_execute has returned: free_env(vm.current_env)
Teardown ==
    /\ status = "exit"
    /\ LET m == free_env([Machine EXCEPT !.status = "running"], current_env)
       IN  Commit(IF Running(m) THEN [m EXCEPT !.status = "torn down"] ELSE m)
    /\ UNCHANGED <<steps, scope_entry, bytecode, ip, tokens, pos, bc, pstate, iters, lexer>>

Next ==
    \/ PUSH_NUM \/ PUSH_STR \/ PUSH_BOOL \/ PUSH_UNDEFINED \/ PUSH_NULL
    \/ NEW_OBJECT \/ SET_PROP \/ GET_PROP
    \/ PUSH_VAR \/ STORE_VAR \/ PUSH_ENV \/ POP_ENV
    \/ ADD \/ PRINT \/ EXIT \/ Teardown

Spec == Init /\ [][Next]_vars

----------------------------------------------------------------------------
(* The compiler: tokens, emission, the recursive-descent parser *)

MAX_TOKEN_LEN == 64
MAX_BYTECODE_LEN == 512

TOKEN_EOF == 0
TOKEN_NUMBER == 1
TOKEN_STRING == 2
TOKEN_BOOLEAN == 3
TOKEN_UNDEFINED == 4
TOKEN_NULL == 5
TOKEN_IDENTIFIER == 6
TOKEN_OPERATOR == 7
TOKEN_PUNCTUATOR == 8
TOKEN_KEYWORD == 9

Token(type, lexeme) == [type |-> type, lexeme |-> lexeme]

\* the token lexer_next_token produces at the end of the source
EofToken == Token(TOKEN_EOF, <<>>)

KW_var == <<118, 97, 114>>
KW_print == <<112, 114, 105, 110, 116>>

\* the parser's state as the parse functions see it: the token sequence, the
\* number of tokens consumed, the bytes emitted, and whether exit(1) was called;
\* calls is history: the calls of emit_byte, emit_double and emit_string made
\* from this state on, in order
ParserRec == [toks |-> tokens, pos |-> pos, bc |-> bc, st |-> "ok", calls |-> <<>>]

\* one call of an emit function and its argument
EmitCall(kind, num, text) == [kind |-> kind, num |-> num, text |-> text]

Ok(P) == P.st = "ok"

\* exit(1) after a compile diagnostic
ParseError(P) == IF Ok(P) THEN [P EXCEPT !.st = "error"] ELSE P

\* parser->lexer->current
Cur(P) == IF P.pos < Len(P.toks) THEN P.toks[P.pos + 1] ELSE EofToken

\* current.lexeme[0]; the terminator 0 when the lexeme is empty
Lexeme0(P) == IF Cur(P).lexeme = <<>> THEN 0 ELSE Cur(P).lexeme[1]

parser_check(P, type) == Cur(P).type = type

parser_check_keyword(P, keyword) ==
    Cur(P).type = TOKEN_KEYWORD /\ Cur(P).lexeme = keyword

\* the test "parser_check(parser, TOKEN_PUNCTUATOR) && lexeme[0] == c"
CheckPunct(P, c) == parser_check(P, TOKEN_PUNCTUATOR) /\ Lexeme0(P) = c

\* lexer_number, lexer_string and lexer_identifier copy the whole lexeme and its
\* terminator into Token.lexeme, an array of MAX_TOKEN_LEN bytes: a lexeme of
\* MAX_TOKEN_LEN bytes or more is written past the end of the array
Overflowing(tok) == Len(tok.lexeme) > MAX_TOKEN_LEN - 1

\* lexer_next_token into parser->lexer->current: the parser after the token at
\* P.pos has been consumed
Advance(P) ==
    LET P1 == [P EXCEPT !.pos = @ + 1]
    IN  IF Overflowing(Cur(P1)) THEN [P1 EXCEPT !.st = "ub"] ELSE P1

\* parser_match's effect; it returns parser_check of the state before
parser_match(P, type) ==
    IF Ok(P) /\ parser_check(P, type) THEN Advance(P) ELSE P

parser_match_keyword(P, keyword) ==
    IF Ok(P) /\ parser_check_keyword(P, keyword) THEN Advance(P) ELSE P

emit_byte(P, byte) ==
    IF ~Ok(P) THEN P
    ELSE IF Len(P.bc) >= MAX_BYTECODE_LEN THEN ParseError(P)
    ELSE [P EXCEPT !.bc = Append(@, byte),
                   !.calls = Append(@, EmitCall("byte", byte, <<>>))]

\* 2^k
RECURSIVE Pow2(_)
Pow2(k) == IF k = 0 THEN 1 ELSE 2 * Pow2(k - 1)

\* the exponent of the leading bit of n >= 1
RECURSIVE Log2(_)
Log2(n) == IF n < 2 THEN 0 ELSE 1 + Log2(n \div 2)

\* the 8 bytes of the IEEE-754 double of a whole number 0 <= n < 2^21, in the
\* host's (little-endian) order, as memcpy of a double lays them out
DoubleBytes(n) ==
    IF n = 0 THEN <<0, 0, 0, 0, 0, 0, 0, 0>>
    ELSE LET e == Log2(n)
             frac == (n - Pow2(e)) * Pow2(20 - e)
             biased == 1023 + e
         IN  <<0, 0, 0, 0, frac % 256, (frac \div 256) % 256,
               (biased % 16) * 16 + (frac \div 65536), biased \div 16>>

\* the whole number whose double the 8 bytes are (0 when they are none such)
DoubleValue(b) ==
    LET biased == (b[8] % 128) * 16 + (b[7] \div 16)
        e == biased - 1023
        frac == (b[7] % 16) * 65536 + b[6] * 256 + b[5]
    IN  IF e < 0 \/ e > 20 THEN 0 ELSE Pow2(e) + (frac \div Pow2(20 - e))

emit_double(P, value) ==
    IF ~Ok(P) THEN P
    ELSE IF Len(P.bc) + 8 > MAX_BYTECODE_LEN THEN ParseError(P)
    ELSE [P EXCEPT !.bc = @ \o DoubleBytes(value),
                   !.calls = Append(@, EmitCall("double", value, <<>>))]

\* emit_string as a C string: the bytes and a terminator, no length byte
emit_string_terminated(P, str) ==
    IF ~Ok(P) THEN P
    ELSE IF Len(str) > 255 THEN ParseError(P)
    ELSE IF Len(P.bc) + 1 + Len(str) > MAX_BYTECODE_LEN THEN ParseError(P)
    ELSE [P EXCEPT !.bc = @ \o str \o <<0>>,
                   !.calls = Append(@, EmitCall("string", 0, str))]

emit_string(P, str) ==
    IF ~Ok(P) THEN P
    ELSE IF Len(str) > 255 THEN ParseError(P)
    ELSE IF Len(P.bc) + 1 + Len(str) > MAX_BYTECODE_LEN THEN ParseError(P)
    ELSE LET P1 == emit_byte(P, Len(str))
         IN  IF Ok(P1)
             THEN [P1 EXCEPT !.bc = @ \o str,
                             !.calls = Append(P.calls, EmitCall("string", 0, str))]
             ELSE P1

\* atof of a lexeme: the value of its leading digits (the whole part)
RECURSIVE atof_from(_, _, _)
atof_from(lexeme, i, acc) ==
    IF i > Len(lexeme) \/ lexeme[i] < 48 \/ lexeme[i] > 57 THEN acc
    ELSE atof_from(lexeme, i + 1, acc * 10 + (lexeme[i] - 48))

atof(lexeme) == atof_from(lexeme, 1, 0)

RECURSIVE parse_primary(_)
RECURSIVE parse_expression(_)
RECURSIVE ExpressionLoop(_)
RECURSIVE PropertyAccessLoop(_)
RECURSIVE ObjectLiteralLoop(_)

\* parse_primary: the while loop over ". identifier" after an identifier
PropertyAccessLoop(P) ==
    IF ~Ok(P) \/ ~CheckPunct(P, 46) THEN P
    ELSE LET P1 == parser_match(P, TOKEN_PUNCTUATOR)
         IN  IF parser_check(P1, TOKEN_IDENTIFIER)
             THEN PropertyAccessLoop(
                      parser_match(emit_string(emit_byte(P1, OP_GET_PROP), Cur(P1).lexeme),
                                   TOKEN_IDENTIFIER))
             ELSE ParseError(P1)

\* parse_primary: the while (1) loop over the properties of an object literal
ObjectLiteralLoop(P) ==
    IF ~Ok(P) THEN P
    ELSE IF ~parser_check(P, TOKEN_IDENTIFIER) THEN ParseError(P)
    ELSE LET prop_name == Cur(P).lexeme
             P1 == parser_match(P, TOKEN_IDENTIFIER)
         IN  IF ~CheckPunct(P1, 58) THEN ParseError(P1)
             ELSE LET P2 == parse_expression(parser_match(P1, TOKEN_PUNCTUATOR))
                      P3 == emit_string(emit_byte(P2, OP_SET_PROP), prop_name)
                  IN  IF ~Ok(P3) THEN P3
                      ELSE IF CheckPunct(P3, 125) THEN parser_match(P3, TOKEN_PUNCTUATOR)
                      ELSE IF CheckPunct(P3, 44)
                      THEN ObjectLiteralLoop(parser_match(P3, TOKEN_PUNCTUATOR))
                      ELSE ParseError(P3)

parse_primary(P) ==
    IF ~Ok(P) THEN P
    ELSE IF parser_check(P, TOKEN_NUMBER)
    THEN parser_match(emit_double(emit_byte(P, OP_PUSH_NUM), atof(Cur(P).lexeme)),
                      TOKEN_NUMBER)
    ELSE IF parser_check(P, TOKEN_STRING)
    THEN parser_match(emit_string(emit_byte(P, OP_PUSH_STR), Cur(P).lexeme), TOKEN_STRING)
    ELSE IF parser_check(P, TOKEN_BOOLEAN)
    THEN parser_match(emit_byte(emit_byte(P, OP_PUSH_BOOL),
                                IF Cur(P).lexeme = TXT_true THEN 1 ELSE 0),
                      TOKEN_BOOLEAN)
    ELSE IF parser_check(P, TOKEN_UNDEFINED)
    THEN parser_match(emit_byte(P, OP_PUSH_UNDEFINED), TOKEN_UNDEFINED)
    ELSE IF parser_check(P, TOKEN_NULL)
    THEN parser_match(emit_byte(P, OP_PUSH_NULL), TOKEN_NULL)
    ELSE IF parser_check(P, TOKEN_IDENTIFIER)
    THEN PropertyAccessLoop(
             parser_match(emit_string(emit_byte(P, OP_PUSH_VAR), Cur(P).lexeme),
                          TOKEN_IDENTIFIER))
    ELSE IF CheckPunct(P, 40)
    THEN LET P1 == parse_expression(parser_match(P, TOKEN_PUNCTUATOR))
             P2 == parser_match(P1, TOKEN_PUNCTUATOR)
         IN  IF ~Ok(P1) THEN P1
             \* !parser_match(...) || current.lexeme[0] != ')': whatever punctuator
             \* comes is consumed, and the token after it is the one compared
             ELSE IF ~parser_check(P1, TOKEN_PUNCTUATOR) \/ Lexeme0(P2) # 41
             THEN ParseError(P2)
             ELSE P2
    ELSE IF CheckPunct(P, 123)
    THEN LET P1 == emit_byte(parser_match(P, TOKEN_PUNCTUATOR), OP_NEW_OBJECT)
         IN  IF ~Ok(P1) THEN P1
             ELSE IF CheckPunct(P1, 125) THEN parser_match(P1, TOKEN_PUNCTUATOR)
             ELSE ObjectLiteralLoop(P1)
    ELSE ParseError(P)

\* the loop with the whole rest of the chain as right operand of each operator
ExpressionLoop_right(P) ==
    IF ~Ok(P) \/ ~parser_check(P, TOKEN_OPERATOR) THEN P
    ELSE IF Len(Cur(P).lexeme) = 0 THEN ParseError(P)
    ELSE LET op == Lexeme0(P)
             P1 == parse_expression(parser_match(P, TOKEN_OPERATOR))
         IN  IF ~Ok(P1) THEN P1
             ELSE IF op = 43 THEN emit_byte(P1, OP_ADD)
             ELSE ParseError(P1)

\* parse_expression: the while loop over "operator primary"
ExpressionLoop(P) ==
    IF ~Ok(P) \/ ~parser_check(P, TOKEN_OPERATOR) THEN P
    ELSE IF Len(Cur(P).lexeme) = 0 THEN ParseError(P)
    ELSE LET op == Lexeme0(P)
             P1 == parse_primary(parser_match(P, TOKEN_OPERATOR))
         IN  IF ~Ok(P1) THEN P1
             ELSE IF op = 43 THEN ExpressionLoop(emit_byte(P1, OP_ADD))
             ELSE ParseError(P1)

parse_expression(P) == ExpressionLoop(parse_primary(P))

parse_assignment(P) ==
    IF ~Ok(P) \/ ~parser_check(P, TOKEN_IDENTIFIER) THEN P
    ELSE LET var_name == Cur(P).lexeme
             P1 == parser_match(P, TOKEN_IDENTIFIER)
         IN  IF CheckPunct(P1, 46)
             THEN LET P2 == parser_match(P1, TOKEN_PUNCTUATOR)
                  IN  IF ~parser_check(P2, TOKEN_IDENTIFIER) THEN ParseError(P2)
                      ELSE LET prop_name == Cur(P2).lexeme
                               P3 == parser_match(P2, TOKEN_IDENTIFIER)
                           IN  IF CheckPunct(P3, 61)
                               THEN LET P4 == parser_match(P3, TOKEN_PUNCTUATOR)
                                        P5 == emit_string(emit_byte(P4, OP_PUSH_VAR),
                                                          var_name)
                                        P6 == parse_expression(P5)
                                    IN  emit_string(emit_byte(P6, OP_SET_PROP), prop_name)
                               ELSE emit_string(
                                        emit_byte(
                                            emit_string(emit_byte(P3, OP_PUSH_VAR),
                                                        var_name),
                                            OP_GET_PROP),
                                        prop_name)
             ELSE IF CheckPunct(P1, 61)
             THEN LET P2 == parse_expression(parser_match(P1, TOKEN_PUNCTUATOR))
                  IN  emit_string(emit_byte(P2, OP_STORE_VAR), var_name)
             ELSE emit_string(emit_byte(P1, OP_PUSH_VAR), var_name)

\* parse_var_declaration without the store of undefined for a missing initializer
parse_var_declaration_no_default(P) ==
    LET P1 == parser_match_keyword(P, KW_var)
    IN  IF ~Ok(P1) THEN P1
        ELSE IF ~parser_check(P1, TOKEN_IDENTIFIER) THEN ParseError(P1)
        ELSE LET var_name == Cur(P1).lexeme
                 P2 == parser_match(P1, TOKEN_IDENTIFIER)
             IN  IF CheckPunct(P2, 61)
                 THEN LET P3 == parse_expression(parser_match(P2, TOKEN_PUNCTUATOR))
                      IN  emit_string(emit_byte(P3, OP_STORE_VAR), var_name)
                 ELSE emit_string(emit_byte(P2, OP_STORE_VAR), var_name)

parse_var_declaration(P) ==
    LET P1 == parser_match_keyword(P, KW_var)
    IN  IF ~Ok(P1) THEN P1
        ELSE IF ~parser_check(P1, TOKEN_IDENTIFIER) THEN ParseError(P1)
        ELSE LET var_name == Cur(P1).lexeme
                 P2 == parser_match(P1, TOKEN_IDENTIFIER)
             IN  IF CheckPunct(P2, 61)
                 THEN LET P3 == parse_expression(parser_match(P2, TOKEN_PUNCTUATOR))
                      IN  emit_string(emit_byte(P3, OP_STORE_VAR), var_name)
                 ELSE emit_string(
                          emit_byte(emit_byte(P2, OP_PUSH_UNDEFINED), OP_STORE_VAR),
                          var_name)

parse_print_statement(P) ==
    LET P1 == parser_match_keyword(P, KW_print)
    IN  IF ~Ok(P1) THEN P1
        ELSE IF ~CheckPunct(P1, 40) THEN ParseError(P1)
        ELSE LET P2 == parse_expression(parser_match(P1, TOKEN_PUNCTUATOR))
             IN  IF ~Ok(P2) THEN P2
                 ELSE IF ~CheckPunct(P2, 41) THEN ParseError(P2)
                 ELSE emit_byte(parser_match(P2, TOKEN_PUNCTUATOR), OP_PRINT)

\* the dispatch without the diagnostic for a keyword other than var and print
KeywordOrAssignment_lenient(P) ==
    IF parser_check_keyword(P, KW_var) THEN parse_var_declaration(P)
    ELSE IF parser_check_keyword(P, KW_print) THEN parse_print_statement(P)
    ELSE parse_assignment(P)

\* the statement dispatch shared by parse_statement and the loop of parse_block:
\* a keyword statement, or else parse_assignment
KeywordOrAssignment(P) ==
    IF parser_check(P, TOKEN_KEYWORD)
    THEN IF parser_check_keyword(P, KW_var) THEN parse_var_declaration(P)
         ELSE IF parser_check_keyword(P, KW_print) THEN parse_print_statement(P)
         ELSE ParseError(P)
    ELSE parse_assignment(P)

----------------------------------------------------------------------------
(* compile, then the compiler's main with -e: vm_init and vm_execute over  *)
(* the bytes compile returned. One step per iteration of the statement     *)
(* loops of parse_program and parse_block, one per iteration of the loop   *)
(* of vm_execute.                                                          *)

\* consecutive iterations of the statement loops that consume no token, after
\* which a compilation is followed no further
MaxIters == 2

\* iters counts the iterations since a token was last consumed
CommitParser(P, state) ==
    /\ pos' = P.pos
    /\ bc' = P.bc
    /\ pstate' = IF Ok(P) THEN state ELSE P.st
    /\ iters' = IF P.pos > pos THEN 0 ELSE iters + 1
    /\ UNCHANGED <<tokens, vmvars, steps, scope_entry, bytecode, ip, lexer>>

Parsing(state) == pstate = state /\ iters < MaxIters

\* parse_program: an iteration whose parse_statement is not a block
ParseStatement ==
    /\ Parsing("program")
    /\ ~parser_check(ParserRec, TOKEN_EOF)
    /\ ~CheckPunct(ParserRec, 123)
    /\ CommitParser(parser_match(KeywordOrAssignment(ParserRec), TOKEN_PUNCTUATOR),
                    "program")

\* parse_program: parse_statement enters parse_block, up to its loop
ParseBlockOpen ==
    /\ Parsing("program")
    /\ CheckPunct(ParserRec, 123)
    /\ CommitParser(emit_byte(parser_match(ParserRec, TOKEN_PUNCTUATOR), OP_PUSH_ENV),
                    "block")

\* parse_block: an iteration of its loop
ParseBlockStatement ==
    /\ Parsing("block")
    /\ ~CheckPunct(ParserRec, 125)
    /\ CommitParser(parser_match(KeywordOrAssignment(ParserRec), TOKEN_PUNCTUATOR),
                    "block")

\* parse_block after its loop, and the rest of parse_program's iteration
ParseBlockClose ==
    /\ Parsing("block")
    /\ CheckPunct(ParserRec, 125)
    /\ CommitParser(parser_match(parser_match(emit_byte(ParserRec, OP_POP_ENV),
                                              TOKEN_PUNCTUATOR),
                                 TOKEN_PUNCTUATOR),
                    "program")

\* parse_program with parse_statement and parse_block as one function of the
\* parser: its state when compile returns or exits, or "hang" when an iteration
\* of a statement loop consumes no token (the next one then finds the same token)
RECURSIVE StatementLoops(_, _)
StatementLoops(P, state) ==
    IF ~Ok(P) THEN P
    ELSE IF state = "program" /\ parser_check(P, TOKEN_EOF) THEN emit_byte(P, OP_EXIT)
    ELSE IF state = "program" /\ CheckPunct(P, 123)
    THEN StatementLoops(emit_byte(parser_match(P, TOKEN_PUNCTUATOR), OP_PUSH_ENV), "block")
    ELSE IF state = "block" /\ CheckPunct(P, 125)
    THEN StatementLoops(parser_match(parser_match(emit_byte(P, OP_POP_ENV),
                                                  TOKEN_PUNCTUATOR),
                                     TOKEN_PUNCTUATOR),
                        "program")
    ELSE LET P1 == parser_match(KeywordOrAssignment(P), TOKEN_PUNCTUATOR)
         IN  IF Ok(P1) /\ P1.pos = P.pos THEN [P1 EXCEPT !.st = "hang"]
             ELSE StatementLoops(P1, state)

\* compile on a token sequence
compile(toks) == StatementLoops([toks |-> toks, pos |-> 0, bc |-> <<>>, st |-> "ok",
                                 calls |-> <<>>],
                                "program")

\* the end of parse_program without the emission of OP_EXIT
ParseProgramEnd_no_exit ==
    /\ Parsing("program")
    /\ parser_check(ParserRec, TOKEN_EOF)
    /\ CommitParser(ParserRec, "done")

\* parse_program after its loop; compile returns the bytes
ParseProgramEnd ==
    /\ Parsing("program")
    /\ parser_check(ParserRec, TOKEN_EOF)
    /\ CommitParser(emit_byte(ParserRec, OP_EXIT), "done")

\* main: vm_execute is entered with the bytes compile returned
Execute ==
    /\ pstate = "done"
    /\ pstate' = "executing"
    /\ bytecode' = bc
    /\ ip' = 0
    /\ UNCHANGED <<tokens, pos, bc, iters, vmvars, steps, scope_entry, lexer>>

\* bytecode[i], i counted from 0 as in the source
Byte(i) == bytecode[i + 1]

\* the n bytes from bytecode[i] lie inside the buffer
InBuf(i, n) == i >= 0 /\ i + n <= Len(bytecode)

Bytes(i, n) == SubSeq(bytecode, i + 1, i + n)

\* the int memcpy reads from 4 bytes (little-endian, two's complement)
Int32(b) == b[1] + 256 * b[2] + 65536 * b[3]
            + 16777216 * (IF b[4] >= 128 THEN b[4] - 256 ELSE b[4])

\* an instruction's outcome: the machine and the instruction pointer
Outcome(m, next_ip) == [m |-> m, ip |-> next_ip]

\* the cases whose operand is one length byte and that many bytes of text
TextCase(m, op, str) ==
    IF op = OP_PUSH_STR THEN do_PUSH_STR(m, str)
    ELSE IF op = OP_PUSH_VAR THEN do_PUSH_VAR(m, str)
    ELSE IF op = OP_STORE_VAR THEN do_STORE_VAR(m, str)
    ELSE IF op = OP_SET_PROP THEN do_SET_PROP(m, str)
    ELSE do_GET_PROP(m, str)

do_CALL(m, q) ==
    IF ~InBuf(q + 1, 4) THEN Outcome(Undefined(m), q)
    ELSE Outcome(vm_call(m, q + 5), Int32(Bytes(q + 1, 4)))

do_RET(m, q) ==
    Outcome(vm_ret(m), IF Len(m.call_stack) > 0 THEN m.call_stack[Len(m.call_stack)] ELSE q)

\* the body of vm_execute's loop at instruction pointer p
Instruction(m, p, kept) ==
    LET op == Byte(p)
        q == p + 1
    IN  IF op = OP_PUSH_NUM
        THEN IF InBuf(q, 8) THEN Outcome(do_PUSH_NUM(m, DoubleValue(Bytes(q, 8))), q + 8)
             ELSE Outcome(Undefined(m), q)
        ELSE IF op \in {OP_PUSH_STR, OP_PUSH_VAR, OP_STORE_VAR, OP_SET_PROP, OP_GET_PROP}
        THEN IF InBuf(q, 1) /\ InBuf(q + 1, Byte(q))
             THEN Outcome(TextCase(m, op, Bytes(q + 1, Byte(q))), q + 1 + Byte(q))
             ELSE Outcome(Undefined(m), q)
        ELSE IF op = OP_PUSH_BOOL
        THEN IF InBuf(q, 1) THEN Outcome(do_PUSH_BOOL(m, Byte(q)), q + 1)
             ELSE Outcome(Undefined(m), q)
        ELSE IF op = OP_PUSH_UNDEFINED THEN Outcome(do_PUSH_UNDEFINED(m), q)
        ELSE IF op = OP_PUSH_NULL THEN Outcome(do_PUSH_NULL(m), q)
        ELSE IF op = OP_NEW_OBJECT THEN Outcome(do_NEW_OBJECT(m), q)
        ELSE IF op = OP_PUSH_ENV THEN Outcome(do_PUSH_ENV(m), q)
        ELSE IF op = OP_POP_ENV THEN Outcome(do_POP_ENV(m), q)
        ELSE IF op = OP_ADD THEN Outcome(do_ADD(m, kept), q)
        ELSE IF op = OP_CALL THEN do_CALL(m, q)
        ELSE IF op = OP_RET THEN do_RET(m, q)
        ELSE IF op = OP_PRINT THEN Outcome(do_PRINT(m), q)
        ELSE IF op = OP_EXIT THEN Outcome(do_EXIT(m), q)
        ELSE Outcome(Fatal(m, "unknown opcode"), q)

\* the loop test of vm_execute on the way in: past the end the function returns,
\* before the start the fetch reads outside the buffer
LoopTest(o) ==
    IF ~Running(o.m) \/ InBuf(o.ip, 1) THEN o.m
    ELSE IF o.ip < 0 THEN Undefined(o.m)
    ELSE [o.m EXCEPT !.status = "returned"]

\* vm_execute: one iteration of while (ip < len)
VmStep ==
    /\ pstate = "executing"
    /\ status = "running"
    /\ InBuf(ip, 1)
    /\ Byte(ip) = OP_PUSH_ENV => HasFreeEnvSlot(Machine)
    /\ \E kept \in BOOLEAN :
           LET o == Instruction(Machine, ip, kept)
           IN  /\ Commit(LoopTest(o))
               /\ ip' = o.ip
    /\ UNCHANGED <<tokens, pos, bc, pstate, iters, bytecode, steps, scope_entry, lexer>>

NextCompile ==
    \/ ParseStatement \/ ParseBlockOpen \/ ParseBlockStatement \/ ParseBlockClose
    \/ ParseProgramEnd \/ Execute \/ VmStep

\* the sequences over S of length at most n
SeqsUpTo(S, n) == UNION {[1..k -> S] : k \in 0..n}

RECURSIVE Flatten(_)
Flatten(ss) == IF ss = <<>> THEN <<>> ELSE Head(ss) \o Flatten(Tail(ss))

KW_function == <<102, 117, 110, 99, 116, 105, 111, 110>>
KW_return == <<114, 101, 116, 117, 114, 110>>

is_keyword(lexeme) == lexeme \in {KW_var, KW_print, KW_function, KW_return}

is_alpha(c) == c \in 97..122 \/ c \in 65..90 \/ c = 95

\* lexer_next_token's classification of one lexeme of the source by its first
\* character: a number, a string (the quotes dropped), an operator, a
\* punctuator, a word (keyword, literal or identifier), or an unknown character
Lexed(text) ==
    LET c == text[1]
    IN  IF c \in 48..57 THEN Token(TOKEN_NUMBER, text)
        ELSE IF c = 34 THEN Token(TOKEN_STRING, SubSeq(text, 2, Len(text) - 1))
        ELSE IF c \in {43, 45, 42, 47} THEN Token(TOKEN_OPERATOR, <<c>>)
        ELSE IF c \in {61, 59, 40, 41, 123, 125, 46, 58, 44}
        THEN Token(TOKEN_PUNCTUATOR, <<c>>)
        ELSE IF is_alpha(c) \/ c = 36
        THEN IF text \in {TXT_true, TXT_false} THEN Token(TOKEN_BOOLEAN, text)
             ELSE IF text = TXT_undefined THEN Token(TOKEN_UNDEFINED, text)
             ELSE IF text = TXT_null THEN Token(TOKEN_NULL, text)
             ELSE IF is_keyword(text) THEN Token(TOKEN_KEYWORD, text)
             ELSE Token(TOKEN_IDENTIFIER, text)
        ELSE Token(TOKEN_OPERATOR, <<c>>)

\* lexer_skip_whitespace passes over the lexeme: white space, a line comment
\* (with the end of its line) or a block comment
is_blank(text) ==
    \/ text[1] \in {32, 9, 10, 13}
    \/ Len(text) >= 2 /\ text[1] = 47 /\ text[2] \in {47, 42}

\* the tokens of a source given as the sequence of its lexemes
Lex(source) ==
    LET kept == SelectSeq(source, LAMBDA text : ~is_blank(text))
    IN  [i \in 1..Len(kept) |-> Lexed(kept[i])]

\* length of the sources compiled under SpecParse
MaxTokens == 4

\* a space, the comments //x (to the end of its line) and /*x*/
Blanks == {<<32>>, <<47, 47, 120, 10>>, <<47, 42, 120, 42, 47>>}

\* the lexemes they are made of:  1 x var print = ; { } ( ) : ,  and the blanks
Palette == {<<49>>, <<120>>, KW_var, KW_print, <<61>>, <<59>>, <<123>>, <<125>>,
            <<40>>, <<41>>, <<58>>, <<44>>} \cup Blanks

\* the VM after vm_init and the parser after parser_init on the source (its
\* first token already read)
CompileInit(source) ==
    /\ VmInit
    /\ tokens = Lex(source)
    /\ pos = 0 /\ bc = <<>> /\ iters = 0 /\ LexerIdle
    /\ pstate = IF source # <<>> /\ Lex(source) # <<>> /\ Overflowing(Lex(source)[1])
               THEN "ub" ELSE "program"
    /\ bytecode = <<>> /\ ip = 0

\* compile over every source, then execution of what compiled
InitParse == \E source \in SeqsUpTo(Palette, MaxTokens) : CompileInit(source)

SpecParse == InitParse /\ [][NextCompile]_vars

\* statements of the supported grammar; every read is of a declared variable and
\* every property access is on an object
\* var x = 1;    var x;
Declarations == {<<KW_var, <<120>>, <<61>>, <<49>>, <<59>>>>, <<KW_var, <<120>>, <<59>>>>}

Statements ==
    {   \* print(x);
        <<KW_print, <<40>>, <<120>>, <<41>>, <<59>>>>,
        \* x = x + "a";
        <<<<120>>, <<61>>, <<120>>, <<43>>, <<34, 97, 34>>, <<59>>>>,
        \* x;
        <<<<120>>, <<59>>>>,
        \* var o = {p: 1}; o.p = x; print(o.p);
        <<KW_var, <<111>>, <<61>>, <<123>>, <<112>>, <<58>>, <<49>>, <<125>>, <<59>>,
          <<111>>, <<46>>, <<112>>, <<61>>, <<120>>, <<59>>,
          KW_print, <<40>>, <<111>>, <<46>>, <<112>>, <<41>>, <<59>>>>,
        \* var o = {}; o.p;
        <<KW_var, <<111>>, <<61>>, <<123>>, <<125>>, <<59>>,
          <<111>>, <<46>>, <<112>>, <<59>>>>,
        \* { var x = 1; print(x); }
        <<<<123>>, KW_var, <<120>>, <<61>>, <<49>>, <<59>>,
          KW_print, <<40>>, <<120>>, <<41>>, <<59>>, <<125>>>>,
        \* { var y = 1; { } print(y); }
        <<<<123>>, KW_var, <<121>>, <<61>>, <<49>>, <<59>>, <<123>>, <<125>>,
          KW_print, <<40>>, <<121>>, <<41>>, <<59>>, <<125>>>>
    }

\* statements after the declaration in the programs run under SpecRun
MaxStmts == 2

Programs == {d \o Flatten(ss) : d \in Declarations, ss \in SeqsUpTo(Statements, MaxStmts)}

\* compile and execute over the well-formed programs
InitRun == \E source \in Programs : CompileInit(source)

SpecRun == InitRun /\ [][NextCompile]_vars

----------------------------------------------------------------------------
(* compile and execute over sources with long names and string literals *)

\* n bytes a
As(n) == [i \in 1..n |-> 97]

\* lengths around the token buffer's size and around the one-byte length's limit
Lengths == {1, 2, 63, 64, 255, 256}

\* an n-byte identifier N or string literal "S" in the positions where the grammar
\* has a name or a string:  N   N;   var N   var N = 1   print(N)   print("S")
\* var x = "S"   x = "S"   x.N   { N; }   var x = {N: 1}   "S"
LongSources ==
    UNION {LET N == As(n)
               S == <<34>> \o As(n) \o <<34>>
           IN  {<<N>>, <<N, <<59>>>>, <<KW_var, N>>, <<KW_var, N, <<61>>, <<49>>>>,
                <<KW_print, <<40>>, N, <<41>>>>, <<KW_print, <<40>>, S, <<41>>>>,
                <<KW_var, <<120>>, <<61>>, S>>, <<<<120>>, <<61>>, S>>,
                <<<<120>>, <<46>>, N>>, <<<<123>>, N, <<59>>, <<125>>>>,
                <<KW_var, <<120>>, <<61>>, <<123>>, N, <<58>>, <<49>>, <<125>>>>,
                <<S>>}
           : n \in Lengths}

InitLong == \E source \in LongSources : CompileInit(source)

SpecLong == InitLong /\ [][NextCompile]_vars

\* number of primaries of the longest addition chains compiled under SpecExpr
MaxChain == 3

\* the lexemes of a parenthesised expression
Paren(e) == <<<<40>>>> \o e \o <<<<41>>>>

\* 1   "a"   y
Atoms == {<<<<49>>>>, <<<<34, 97, 34>>>>, <<<<121>>>>}

\* the atoms, (1) ("a") (y), (1 + 1), ((1)) and the object literal {p: 1}
Primaries ==
    Atoms \cup {Paren(a) : a \in Atoms}
          \cup {Paren(<<<<49>>, <<43>>, <<49>>>>), Paren(Paren(<<<<49>>>>)),
                <<<<123>>, <<112>>, <<58>>, <<49>>, <<125>>>>}

\* + - * / and the unknown character @, all TOKEN_OPERATOR to the lexer
Operators == {<<43>>, <<45>>, <<42>>, <<47>>, <<64>>}

\* the chains of n primaries from P joined by operators from O
RECURSIVE ChainsOf(_, _, _)
ChainsOf(P, O, n) ==
    IF n = 1 THEN P
    ELSE {c \o <<o>> \o q : c \in ChainsOf(P, O, n - 1), o \in O, q \in P}

\* every primary, every pair of primaries under every operator, and the longer
\* chains of 1, "a" and (1) under + and -
Exprs ==
    Primaries \cup ChainsOf(Primaries, Operators, 2)
              \cup UNION {ChainsOf({<<<<49>>>>, <<<<34, 97, 34>>>>, Paren(<<<<49>>>>)},
                                   {<<43>>, <<45>>}, n) : n \in 3..MaxChain}

\* var x = e;   var x = e   print(e);   { var x = e; }   var y = 1; y; var x = e;
\* and the declarations without initializer   var x;   var x   var y = 1; y; var x;
ExprSources ==
    UNION {{<<KW_var, <<120>>, <<61>>>> \o e \o <<<<59>>>>,
            <<KW_var, <<120>>, <<61>>>> \o e,
            <<KW_print, <<40>>>> \o e \o <<<<41>>, <<59>>>>,
            <<<<123>>, KW_var, <<120>>, <<61>>>> \o e \o <<<<59>>, <<125>>>>,
            <<KW_var, <<121>>, <<61>>, <<49>>, <<59>>, <<121>>, <<59>>,
              KW_var, <<120>>, <<61>>>> \o e \o <<<<59>>>>} : e \in Exprs}
    \cup {<<KW_var, <<120>>, <<59>>>>, <<KW_var, <<120>>>>,
          <<KW_var, <<121>>, <<61>>, <<49>>, <<59>>, <<121>>, <<59>>,
            KW_var, <<120>>, <<59>>>>}

\* compile and execute over the expression sources
InitExpr == \E source \in ExprSources : CompileInit(source)

SpecExpr == InitExpr /\ [][NextCompile]_vars

\* number of properties of the longest chains  o.p.q...  compiled under SpecStmt
MaxDots == 2

\* .p   .p.q   .p.q.r  ...: n property accesses, named from p on
RECURSIVE Dots(_)
Dots(n) == IF n = 0 THEN <<>> ELSE Dots(n - 1) \o <<<<46>>, <<111 + n>>>>

\* the statements compiled under SpecStmt: plain and property assignments and
\* reads, a declaration, a print, and statements that begin with the keywords
\* function and return
\*   x = 2   var y = x   print(x)   function   function f   return   return x
\*   o.p = 2   o.p.q = 2  ...      o.p   o.p.q  ...
StmtForms ==
    {<<<<120>>, <<61>>, <<50>>>>,
     <<KW_var, <<121>>, <<61>>, <<120>>>>,
     <<KW_print, <<40>>, <<120>>, <<41>>>>,
     <<KW_function>>, <<KW_function, <<102>>>>, <<KW_return>>, <<KW_return, <<120>>>>}
    \cup {<<<<111>>>> \o Dots(n) \o <<<<61>>, <<50>>>> : n \in 1..MaxDots}
    \cup {<<<<111>>>> \o Dots(n) : n \in 1..MaxDots}

\* var x = 1; var o = {p: {q: 1}};  then one statement, with or without its
\* semicolon, at top level or in a block, and print(x); after it
StmtSources ==
    {<<KW_var, <<120>>, <<61>>, <<49>>, <<59>>,
       KW_var, <<111>>, <<61>>, <<123>>, <<112>>, <<58>>,
       <<123>>, <<113>>, <<58>>, <<49>>, <<125>>, <<125>>, <<59>>>>
     \o open \o stmt \o semi \o (IF open = <<>> THEN <<>> ELSE <<<<125>>>>)
     \o <<KW_print, <<40>>, <<120>>, <<41>>, <<59>>>> :
        open \in {<<>>, <<<<123>>>>}, stmt \in StmtForms, semi \in {<<>>, <<<<59>>>>}}

\* compile and execute over the statement sources
InitStmt == \E source \in StmtSources : CompileInit(source)

SpecStmt == InitStmt /\ [][NextCompile]_vars

----------------------------------------------------------------------------
(* compile and execute over statements with every kind of operand *)

\* statements after the declarations in the sources compiled under SpecCode
MaxCode == 1

\* 1  12  ""  "ab"  true  false  null  undefined  x  o.p  {p: 1}
CodeAtoms ==
    {<<<<49>>>>, <<<<49, 50>>>>, <<<<34, 34>>>>, <<<<34, 97, 98, 34>>>>,
     <<TXT_true>>, <<TXT_false>>, <<TXT_null>>, <<TXT_undefined>>,
     <<<<120>>>>, <<<<111>>, <<46>>, <<112>>>>,
     <<<<123>>, <<112>>, <<58>>, <<49>>, <<125>>>>}

\* var y = a;   print(a);   x = a + 1;   o.p = a;   { var y = a; }
CodeStatements ==
    UNION {{<<KW_var, <<121>>, <<61>>>> \o a \o <<<<59>>>>,
            <<KW_print, <<40>>>> \o a \o <<<<41>>, <<59>>>>,
            <<<<120>>, <<61>>>> \o a \o <<<<43>>, <<49>>, <<59>>>>,
            <<<<111>>, <<46>>, <<112>>, <<61>>>> \o a \o <<<<59>>>>,
            <<<<123>>, KW_var, <<121>>, <<61>>>> \o a \o <<<<59>>, <<125>>>>}
           : a \in CodeAtoms}

\* var x = 1; var o = {p: 1};  and the statements after them
CodeSources ==
    {<<KW_var, <<120>>, <<61>>, <<49>>, <<59>>,
       KW_var, <<111>>, <<61>>, <<123>>, <<112>>, <<58>>, <<49>>, <<125>>, <<59>>>>
     \o Flatten(ss) : ss \in SeqsUpTo(CodeStatements, MaxCode)}

InitCode == \E source \in CodeSources : CompileInit(source)

SpecCode == InitCode /\ [][NextCompile]_vars

----------------------------------------------------------------------------
(* OP_ADD over every pair of operands: two pushes, then the addition *)

\* the StackVM as vm_init leaves it
InitialMachine ==
    [stack |-> <<>>, current_env |-> 1, call_stack |-> <<>>, heap |-> <<>>,
     envs |-> [e \in 1..MaxEnvs |->
                  IF e = 1 THEN [alloc |-> TRUE, names |-> <<>>, values |-> <<>>,
                                 parent |-> NULL]
                  ELSE NoEnv],
     status |-> "running", err |-> "none", output |-> <<>>]

\* the variables hold machine m
Holds(m) ==
    /\ stack = m.stack
    /\ current_env = m.current_env
    /\ call_stack = m.call_stack
    /\ heap = m.heap
    /\ envs = m.envs
    /\ status = m.status
    /\ err = m.err
    /\ output = m.output

\* a push instruction and its operand (the number, the text, the boolean byte)
Operand(op, arg) == [op |-> op, arg |-> arg]

\* the numbers 0 1 12, the texts "" "a" "ab", false true, undefined, null, {}
Operands ==
    {Operand(OP_PUSH_NUM, <<n>>) : n \in {0, 1, 12}}
    \cup {Operand(OP_PUSH_STR, str) : str \in {<<>>, <<97>>, <<97, 98>>}}
    \cup {Operand(OP_PUSH_BOOL, <<b>>) : b \in {0, 1}}
    \cup {Operand(OP_PUSH_UNDEFINED, <<>>), Operand(OP_PUSH_NULL, <<>>),
          Operand(OP_NEW_OBJECT, <<>>)}

\* the push instruction's case of vm_execute
Push(m, o) ==
    IF o.op = OP_PUSH_NUM THEN do_PUSH_NUM(m, o.arg[1])
    ELSE IF o.op = OP_PUSH_STR THEN do_PUSH_STR(m, o.arg)
    ELSE IF o.op = OP_PUSH_BOOL THEN do_PUSH_BOOL(m, o.arg[1])
    ELSE IF o.op = OP_PUSH_UNDEFINED THEN do_PUSH_UNDEFINED(m)
    ELSE IF o.op = OP_PUSH_NULL THEN do_PUSH_NULL(m)
    ELSE do_NEW_OBJECT(m)

\* the machine after the pushes of a then b
InitAdd ==
    /\ ParserIdle /\ LexerIdle /\ bytecode = <<>> /\ ip = 0
    /\ steps = 0 /\ scope_entry = <<>>
    /\ \E a \in Operands, b \in Operands : Holds(Push(Push(InitialMachine, a), b))

\* OP_ADD on the two operands
ADD_pair ==
    /\ steps = 0
    /\ status = "running"
    /\ \E kept \in BOOLEAN : Commit(do_ADD(Machine, kept))
    /\ steps' = 1
    /\ UNCHANGED <<scope_entry, bytecode, ip, tokens, pos, bc, pstate, iters, lexer>>

SpecAdd == InitAdd /\ [][ADD_pair]_vars

----------------------------------------------------------------------------
(* vm_execute over buffers that begin with an OP_CALL *)

\* instructions after the operand of the OP_CALL
MaxBody == 4

\* OP_CALL, its 4 operand bytes (two low bytes drawn, two high bytes 0), then a
\* body of one-byte instructions (0 is OP_PUSH_NUM, whose operand is cut short)
CallPrograms ==
    {<<OP_CALL, lo, hi, 0, 0>> \o body :
        lo \in {0, 5, 6, 7}, hi \in {0, 6},
        body \in [1..MaxBody -> {OP_PUSH_NUM, OP_PUSH_NULL, OP_PRINT, OP_RET, OP_EXIT}]}

InitCall ==
    /\ Holds(InitialMachine)
    /\ steps = 0 /\ scope_entry = <<>>
    /\ tokens = <<>> /\ pos = 0 /\ bc = <<>> /\ iters = 0 /\ LexerIdle
    /\ pstate = "executing"
    /\ bytecode \in CallPrograms
    /\ ip = 0

SpecCall == InitCall /\ [][VmStep]_vars

----------------------------------------------------------------------------
(* vm_execute over buffers that fill the operand stack, the global         *)
(* environment or an object up to its limit                                *)

\* groups of instructions after the filling part
MaxTail == 1

\* n pushes, of Null and Undefined in turn
StackFill(n) == [i \in 1..n |-> IF i % 2 = 1 THEN OP_PUSH_NULL ELSE OP_PUSH_UNDEFINED]

\* n stores of Null under the one-letter names "A", "B", ...
EnvFill(n) == Flatten([i \in 1..n |-> <<OP_PUSH_NULL, OP_STORE_VAR, 1, 64 + i>>])

\* a new object and n properties "A", "B", ... set to Null; the object stays on
\* the stack
PropFill(n) ==
    <<OP_NEW_OBJECT>> \o Flatten([i \in 1..n |-> <<OP_PUSH_NULL, OP_SET_PROP, 1, 64 + i>>])

\* OP_PUSH_NUM with the eight bytes of 1.0
PushOne == <<OP_PUSH_NUM>> \o DoubleBytes(1)

\* OP_CALL as vm_execute decodes it: the opcode, a byte it skips, and the four
\* bytes of the offset it jumps to
CallTo(offset) == <<OP_CALL, 0, offset, 0, 0, 0>>

\* a call of itself, and two nested calls with their returns
\*    0: CALL 7    6: EXIT    7: CALL 14    13: RET    14: RET
CallFills ==
    {CallTo(0), CallTo(7) \o <<OP_EXIT>> \o CallTo(14) \o <<OP_RET, OP_RET>>}

\* x = "a"; x = x        x = "a"; x = "a"
\* o = {a: "a"}; o.a = o.a        {a: "a"}.a = {}
SelfStore ==
    <<OP_PUSH_STR, 1, 97, OP_STORE_VAR, 1, 120, OP_PUSH_VAR, 1, 120, OP_STORE_VAR, 1, 120>>
OtherStore ==
    <<OP_PUSH_STR, 1, 97, OP_STORE_VAR, 1, 120, OP_PUSH_STR, 1, 97, OP_STORE_VAR, 1, 120>>
SelfSet ==
    <<OP_NEW_OBJECT, OP_PUSH_STR, 1, 97, OP_SET_PROP, 1, 97, OP_STORE_VAR, 1, 111,
      OP_PUSH_VAR, 1, 111, OP_PUSH_VAR, 1, 111, OP_GET_PROP, 1, 97, OP_SET_PROP, 1, 97>>
OtherSet ==
    <<OP_NEW_OBJECT, OP_PUSH_STR, 1, 97, OP_SET_PROP, 1, 97, OP_NEW_OBJECT, OP_SET_PROP, 1, 97>>

OverwriteFills == {SelfStore, OtherStore, SelfSet, OtherSet}

\* x = "a"; { y = x; x        (the block is left with x's string on the stack)
SharedScope ==
    <<OP_PUSH_STR, 1, 97, OP_STORE_VAR, 1, 120, OP_PUSH_ENV, OP_PUSH_VAR, 1, 120,
      OP_STORE_VAR, 1, 121, OP_PUSH_VAR, 1, 120, OP_POP_ENV>>
\* x = 1; { o = {}; o = o; x = "a"
InnerScope ==
    PushOne \o <<OP_STORE_VAR, 1, 120, OP_PUSH_ENV, OP_NEW_OBJECT, OP_STORE_VAR, 1, 111,
                 OP_PUSH_VAR, 1, 111, OP_STORE_VAR, 1, 112,
                 OP_PUSH_STR, 1, 97, OP_STORE_VAR, 1, 120, OP_POP_ENV>>

ScopeFills == {SharedScope, InnerScope}

\* the filling parts: up to the limit and one short of it, and the short ones
Fills ==
    {StackFill(n) : n \in {0, 1, STACK_SIZE - 1, STACK_SIZE}}
    \cup {EnvFill(n) : n \in {MAX_VARS - 1, MAX_VARS}}
    \cup {PropFill(n) : n \in {MAX_PROPS - 1, MAX_PROPS}}
    \cup CallFills
    \cup OverwriteFills
    \cup ScopeFills

\* what follows: a push, a pop, a store / set of an old ("A") or a new name ("x",
\* "0": the fillings use the names from "A" on) with or without the push of its
\* value, a return, or the end of a scope
TailGroups ==
    {<<OP_PUSH_NULL>>, PushOne, <<OP_PRINT>>, <<OP_ADD>>,
     <<OP_NEW_OBJECT>>, <<OP_GET_PROP, 1, 65>>, <<OP_PUSH_VAR, 1, 65>>,
     PushOne \o <<OP_STORE_VAR, 1, 65>>, PushOne \o <<OP_STORE_VAR, 1, 120>>,
     <<OP_STORE_VAR, 1, 120>>,
     PushOne \o <<OP_SET_PROP, 1, 65>>, PushOne \o <<OP_SET_PROP, 1, 48>>,
     <<OP_SET_PROP, 1, 48>>, <<OP_RET>>, <<OP_POP_ENV>>}

DeepPrograms ==
    {fill \o Flatten(tail) : fill \in Fills, tail \in SeqsUpTo(TailGroups, MaxTail)}

InitDeep ==
    /\ Holds(InitialMachine)
    /\ steps = 0 /\ scope_entry = <<>>
    /\ tokens = <<>> /\ pos = 0 /\ bc = <<>> /\ iters = 0 /\ LexerIdle
    /\ pstate = "executing"
    /\ bytecode \in DeepPrograms
    /\ ip = 0

SpecDeep == InitDeep /\ [][VmStep]_vars

----------------------------------------------------------------------------
(* Scoping claims, under Spec *)

\* executing OP_PUSH_VAR n in state m pushes the value v and goes on
Yields(m, n, v) ==
    LET r == do_PUSH_VAR(m, n)
    IN  Running(r) /\ Len(r.stack) = Len(m.stack) + 1 /\ Top(r) = v

\* executing OP_PUSH_VAR n in state m stops with the undefined-variable diagnostic,
\* the stack and the output as they were
Aborts(m, n) ==
    LET r == do_PUSH_VAR(m, n)
    IN  r.status = "fatal" /\ r.err = "undefined variable"
        /\ r.output = m.output /\ r.stack = m.stack

InScope == status = "running" /\ scope_entry # <<>> /\ current_env # NULL

\* C1: inside a scope, a name bound in an enclosing environment when the scope was
\* entered and stored again inside the scope reads as the value stored inside; and
\* once the scope's POP_ENV has run, every name bound on entry reads as the value
\* it had when the scope was entered.
C1_ShadowAndRestore ==
    InScope =>
        \A n \in Names :
            LET entry == scope_entry[Len(scope_entry)][n]
            IN  entry.bound =>
                  /\ Binds(Machine, current_env, n)
                        => Yields(Machine, n, BoundValue(Machine, current_env, n))
                  /\ Running(do_POP_ENV(Machine))
                        => Yields(do_POP_ENV(Machine), n, entry.val)

\* C1 without the reads of bindings that hold Undefined: what the code does keep
C1_ExceptUndefined ==
    InScope =>
        \A n \in Names :
            LET entry == scope_entry[Len(scope_entry)][n]
            IN  entry.bound =>
                  /\ (/\ Binds(Machine, current_env, n)
                      /\ BoundValue(Machine, current_env, n).type # VAL_UNDEFINED)
                        => Yields(Machine, n, BoundValue(Machine, current_env, n))
                  /\ (Running(do_POP_ENV(Machine)) /\ entry.val.type # VAL_UNDEFINED)
                        => Yields(do_POP_ENV(Machine), n, entry.val)

\* C2: an OP_STORE_VAR step changes no environment other than the current one:
\* the names and the values of every other environment stay as they were.
C2_StoreWritesCurrentOnly ==
    [][STORE_VAR => \A e \in 1..MaxEnvs : e # current_env => envs'[e] = envs[e]]_vars

\* a STORE_VAR has made a local shadow: the current environment and its parent
\* both bind "x", to different values
C2_Witness ==
    /\ status = "running" /\ current_env # NULL
    /\ envs[current_env].parent # NULL
    /\ Binds(Machine, current_env, <<120>>)
    /\ Binds(Machine, envs[current_env].parent, <<120>>)
    /\ BoundValue(Machine, current_env, <<120>>)
          # BoundValue(Machine, envs[current_env].parent, <<120>>)

C4_PushVarFatalOnlyIfUnbound ==
    status = "running" =>
        \A n \in Names :
            LET vis == Visible(Machine, current_env, n)
            IN  IF vis.bound THEN Yields(Machine, n, vis.val) ELSE Aborts(Machine, n)

\* C4 for the bindings that do not hold Undefined
C4_ExceptUndefined ==
    status = "running" =>
        \A n \in Names :
            LET vis == Visible(Machine, current_env, n)
            IN  IF vis.bound /\ vis.val.type # VAL_UNDEFINED
                THEN Yields(Machine, n, vis.val)
                ELSE Aborts(Machine, n)

\* C5: a name that no environment of the chain binds - never bound, or bound only
\* in a scope that POP_ENV has left - cannot be read: OP_PUSH_VAR stops with the
\* undefined-variable diagnostic; a name bound only in the current scope is in that
\* case after the scope's POP_ENV; and once execution has stopped nothing more is
\* printed.
C5_State ==
    status = "running" =>
        \A n \in Names :
            /\ ~Visible(Machine, current_env, n).bound => Aborts(Machine, n)
            /\ (/\ current_env # NULL
                /\ Binds(Machine, current_env, n)
                /\ ~Visible(Machine, envs[current_env].parent, n).bound
                /\ Running(do_POP_ENV(Machine)))
                  => Aborts(do_POP_ENV(Machine), n)

C5_UnboundReadAborts ==
    /\ []C5_State
    /\ [][status # "running" => output' = output /\ status' # "running"]_vars

\* a read failed after a scope that had bound a string was left: the string has
\* lost the binding's reference, no environment binds anything, nothing was printed
C5_Witness ==
    /\ status = "fatal" /\ err = "undefined variable"
    /\ stack = <<>> /\ output = <<>>
    /\ current_env = 1 /\ envs[1].names = <<>> /\ ~envs[2].alloc
    /\ Len(heap) = 1 /\ heap[1].ref_count = 2

----------------------------------------------------------------------------
(* Memory claims, under Spec *)

\* every Value held by an operand-stack slot, by a binding of a live environment
\* or by a property of a live object
Held ==
    {stack[i] : i \in 1..Len(stack)}
    \cup UNION {{envs[e].values[i] : i \in 1..Len(envs[e].values)} :
                    e \in {d \in 1..MaxEnvs : envs[d].alloc}}
    \cup UNION {{heap[o].prop_values[i] : i \in 1..Len(heap[o].prop_values)} :
                    o \in {q \in 1..Len(heap) : ~heap[q].freed}}

\* the objects some property of object a refers to
Succ(h, a) == {h[a].prop_values[i].data :
                   i \in {j \in 1..Len(h[a].prop_values) : IsRef(h[a].prop_values[j])}}

RECURSIVE ReachFrom(_, _, _)
ReachFrom(h, S, k) ==
    IF k = 0 THEN S ELSE ReachFrom(h, S \cup UNION {Succ(h, a) : a \in S}, k - 1)

\* no object reaches itself through properties
Acyclic(h) == \A a \in 1..Len(h) : a \notin ReachFrom(h, Succ(h, a), Len(h))

\* C9: when no reference cycle was built, the operand stack is empty and the
\* global environment has been torn down, every object allocated during the run
\* has been deallocated.
C9_NoLeaks ==
    (status = "torn down" /\ stack = <<>> /\ Acyclic(heap))
        => \A o \in 1..Len(heap) : heap[o].freed

\* C10: every String or Object a stack slot, a binding or a property refers to is
\* still allocated with a reference count of at least 1; an object's count is 0
\* exactly when it has been deallocated, and the step that deallocates it is the
\* one that takes its count from 1 to 0.
C10_State ==
    /\ \A v \in Held : IsRef(v) =>
           /\ v.data \in 1..Len(heap)
           /\ ~heap[v.data].freed
           /\ heap[v.data].ref_count >= 1
    /\ \A o \in 1..Len(heap) : heap[o].freed <=> heap[o].ref_count = 0

C10_HeldObjectsLive ==
    /\ []C10_State
    /\ [][\A o \in 1..Len(heap) :
             (~heap[o].freed /\ heap'[o].freed)
                 => heap[o].ref_count = 1 /\ heap'[o].ref_count = 0]_vars

\* a string held by a stack slot and by a binding at once, after a PRINT has
\* released one reference to it
C10_Witness ==
    /\ status = "running" /\ output # <<>>
    /\ \E o \in 1..Len(heap) :
          /\ heap[o].type = VAL_STRING
          /\ [type |-> VAL_STRING, data |-> o] \in {stack[i] : i \in 1..Len(stack)}
          /\ \E e \in 1..MaxEnvs :
                envs[e].alloc /\ [type |-> VAL_STRING, data |-> o]
                                    \in {envs[e].values[i] : i \in 1..Len(envs[e].values)}
          /\ output[1] = heap[o].chars

----------------------------------------------------------------------------
(* Compilation and whole-program claims, under SpecRun and SpecParse *)

\* C6: a well-formed program of the supported grammar compiles and runs to
\* OP_EXIT: its compilation never aborts and its execution never ends in a fatal
\* error (nor in undefined behaviour)
C6_WellFormedRunsToExit == pstate # "error" /\ status \notin {"fatal", "ub"}

\* C7: compile terminates on every token sequence: every iteration of the
\* statement loops of parse_program and parse_block consumes a token or leaves
\* the loop (end of the program, or abort with a diagnostic)
\* (the step, then the claim over every step)
IterationProgresses ==
    pstate \in {"program", "block"} => pos' > pos \/ pstate' \in {"done", "error"}

C7_EveryIterationProgresses == [][IterationProgresses]_vars

\* } ) : ,
StrayPunctuators == {125, 41, 58, 44}

\* the statement at the current token parses, and what follows it is a
\* punctuator that neither separates statements (;) nor opens a block
BadSeparator ==
    LET P1 == KeywordOrAssignment(ParserRec)
    IN  /\ Ok(P1) /\ P1.pos > pos
        /\ parser_check(P1, TOKEN_PUNCTUATOR)
        /\ Lexeme0(P1) \notin {59, 123}

\* C8: compilation is all-or-nothing: at statement level of the program a stray
\* } ) : or , aborts the compilation, and so does a punctuator other than ;
\* between two statements
C8_StrayTokenAborts ==
    [][/\ pstate = "program"
       /\ \/ \E c \in StrayPunctuators : CheckPunct(ParserRec, c)
          \/ BadSeparator
       => pstate' = "error"]_vars

----------------------------------------------------------------------------
(* Instruction claims *)

\* the textual form the coercion table gives a value (strings are read from
\* the heap of the state before the addition)
TableText(v) ==
    IF v.type = VAL_STRING THEN heap[v.data].chars
    ELSE IF v.type = VAL_NUMBER THEN Format2f(v.data)
    ELSE IF v.type = VAL_BOOLEAN THEN (IF v.data # 0 THEN TXT_true ELSE TXT_false)
    ELSE IF v.type = VAL_UNDEFINED THEN TXT_undefined
    ELSE IF v.type = VAL_NULL THEN TXT_null
    ELSE TXT_object

\* the stack is one shorter and its top is v (a String is given by its text)
PushedInstead(type, data) ==
    /\ status' = "running"
    /\ Len(stack') = Len(stack) - 1
    /\ stack'[Len(stack')].type = type
    /\ IF type = VAL_STRING THEN heap'[stack'[Len(stack')].data].chars = data
       ELSE stack'[Len(stack')].data = data

\* what the table says of the addition of a (below) and b (on top)
AddTable ==
    LET a == stack[Len(stack) - 1]
        b == stack[Len(stack)]
    IN  IF a.type = VAL_NUMBER /\ b.type = VAL_NUMBER
        THEN PushedInstead(VAL_NUMBER, a.data + b.data)
        ELSE IF a.type = VAL_STRING \/ b.type = VAL_STRING
        THEN PushedInstead(VAL_STRING, TableText(a) \o TableText(b))
        ELSE status' = "fatal" /\ output' = output

\* C11: OP_ADD follows the coercion table for every pair of operand types:
\* Number+Number pushes the sum, a pair with a String pushes the concatenation
\* of the two textual forms, every other pair is fatal; when it is not fatal the
\* stack is one shorter
C11_AddCoercionTable == [][ADD_pair => AddTable]_vars

\* (C11 holds of every addition in which the build still has the bytes of the
\* out-of-scope num_str)
C11_ExceptOutOfScope == [][ADD_pair /\ status' # "ub" => AddTable]_vars

\* the objects of the heap
Objects(m) == {o \in 1..Len(m.heap) : m.heap[o].type = VAL_OBJECT /\ ~m.heap[o].freed}

\* what OP_GET_PROP p pushes when object o is on top of the stack
Reads(m, o, p) ==
    LET r == do_GET_PROP([m EXCEPT !.stack = <<[type |-> VAL_OBJECT, data |-> o]>>,
                                   !.status = "running"], p)
    IN  IF Running(r) THEN [got |-> TRUE, val |-> Top(r)]
        ELSE [got |-> FALSE, val |-> val_undefined]

\* this step is an OP_SET_PROP p on object o that went through
SetsProp(o, p) ==
    /\ CanStep /\ Exec(do_SET_PROP(Machine, p))
    /\ status' = "running"
    /\ Len(stack) >= 2
    /\ stack[Len(stack) - 1] = [type |-> VAL_OBJECT, data |-> o]

\* a step: an object's property reads as the value just set on it, and as
\* before in every other case; a new object's properties read as Undefined
PropertiesKept ==
    /\ \A o \in Objects(Machine), p \in Props :
           Reads(Machine', o, p) =
               IF SetsProp(o, p) THEN [got |-> TRUE, val |-> stack[Len(stack)]]
               ELSE Reads(Machine, o, p)
    /\ \A o \in Objects(Machine') \ Objects(Machine), p \in Props :
           Reads(Machine', o, p) = [got |-> TRUE, val |-> val_undefined]

\* C12: property round trip: after SET_PROP p with value v on object o, GET_PROP
\* p on o yields v in every later state until p is set again; setting another
\* property q leaves what p yields; a name never set on o yields Undefined
C12_PropertyRoundTrip == [][PropertiesKept]_vars

\* an object has had p and then q set, and a GET_PROP of p has replaced it on
\* the stack by p's value
C12_Witness ==
    \E o \in Objects(Machine) :
        /\ heap[o].prop_names = <<<<112>>, <<113>>>>
        /\ stack = <<heap[o].prop_values[1]>>
        /\ heap[o].prop_values[1] # heap[o].prop_values[2]
        /\ steps = 6 /\ status = "running"

----------------------------------------------------------------------------
(* Code generation claims, under SpecParse *)

IsPunct(tok, c) == tok = Token(TOKEN_PUNCTUATOR, <<c>>)

\* how many blocks are open after the first i tokens
RECURSIVE BraceDepth(_, _)
BraceDepth(toks, i) ==
    IF i = 0 THEN 0
    ELSE BraceDepth(toks, i - 1)
         + (IF IsPunct(toks[i], 123) THEN 1 ELSE IF IsPunct(toks[i], 125) THEN -1 ELSE 0)

\* a source of blocks, the bare read x and semicolons, its braces well nested
BlockSource(toks) ==
    /\ \A i \in 1..Len(toks) :
           \/ IsPunct(toks[i], 123) \/ IsPunct(toks[i], 125) \/ IsPunct(toks[i], 59)
           \/ toks[i] = Token(TOKEN_IDENTIFIER, <<120>>)
    /\ \A i \in 1..Len(toks) : BraceDepth(toks, i) >= 0
    /\ BraceDepth(toks, Len(toks)) = 0

\* the code the grammar gives such a source: PUSH_ENV for {, POP_ENV for },
\* PUSH_VAR x for x
RECURSIVE BlockCode(_)
BlockCode(toks) ==
    IF toks = <<>> THEN <<>>
    ELSE (IF IsPunct(Head(toks), 123) THEN <<OP_PUSH_ENV>>
          ELSE IF IsPunct(Head(toks), 125) THEN <<OP_POP_ENV>>
          ELSE IF IsPunct(Head(toks), 59) THEN <<>>
          ELSE <<OP_PUSH_VAR, 1, 120>>)
         \o BlockCode(Tail(toks))

\* C13: every block in statement position (at top level, directly after another
\* block, after a statement without semicolon, nested in a block) compiles to
\* one PUSH_ENV, its statements' code, one POP_ENV, so the PUSH_ENV / POP_ENV of
\* the output nest as the braces of the source do
C13_BlocksCompileBalanced ==
    pstate = "done" /\ BlockSource(tokens) => bc = BlockCode(tokens) \o <<OP_EXIT>>

----------------------------------------------------------------------------
(* Call and return, under SpecCall *)

\* a step of vm_execute at an OP_CALL whose 4 operand bytes lie in the buffer:
\* the jump goes to the offset they hold, the address after them is pushed
CallJumps ==
    pstate = "executing" /\ status = "running" /\ InBuf(ip, 5) /\ Byte(ip) = OP_CALL
    => /\ ip' = Int32(Bytes(ip + 1, 4))
       /\ call_stack' = Append(call_stack, ip + 5)

\* a step at an OP_RET with a call pending: execution resumes at the address on
\* top of the call stack, which is popped
RetResumes ==
    /\ pstate = "executing" /\ status = "running" /\ InBuf(ip, 1)
    /\ Byte(ip) = OP_RET /\ call_stack # <<>>
    => /\ ip' = call_stack[Len(call_stack)]
       /\ call_stack' = SubSeq(call_stack, 1, Len(call_stack) - 1)

\* C14: OP_CALL at position p jumps to the offset stored in bytes p+1..p+4 and
\* pushes p+5 on the call stack; the matching OP_RET pops that address and
\* resumes there
C14_CallAndReturn == [][CallJumps /\ RetResumes]_vars

\* (OP_RET alone does what C14 says of it)
C14_ReturnOnly == [][RetResumes]_vars

\* the length of the instruction at code[i], as vm_execute advances over it
InstrLen(code, i) ==
    IF code[i] = OP_PUSH_NUM THEN 9
    ELSE IF code[i] \in {OP_PUSH_STR, OP_PUSH_VAR, OP_STORE_VAR, OP_SET_PROP, OP_GET_PROP}
    THEN (IF i < Len(code) THEN 2 + code[i + 1] ELSE 1)
    ELSE IF code[i] = OP_PUSH_BOOL THEN 2
    ELSE 1

\* the opcodes of the instructions of code from code[i] on, in order
RECURSIVE OpcodesFrom(_, _)
OpcodesFrom(code, i) ==
    IF i > Len(code) THEN <<>>
    ELSE <<code[i]>> \o OpcodesFrom(code, i + InstrLen(code, i))

Opcodes(code) == OpcodesFrom(code, 1)

\* how many of the opcodes are op
Count(ops, op) == Cardinality({i \in 1..Len(ops) : ops[i] = op})

\* C15: every buffer compile returns ends with OP_EXIT as its last byte and holds
\* exactly one EXIT instruction; a source without tokens (empty, or white space
\* and comments only) compiles to the single byte OP_EXIT
C15_EndsWithExit ==
    /\ \A source \in SeqsUpTo(Blanks, 2) : Lex(source) = <<>>
    /\ pstate \in {"done", "executing"}
       => /\ bc # <<>>
          /\ bc[Len(bc)] = OP_EXIT
          /\ Count(Opcodes(bc), OP_EXIT) = 1
          /\ tokens = <<>> => bc = <<OP_EXIT>>

\* compile has returned the code of a source with a block and a declaration
C15_Witness ==
    /\ pstate = "done"
    /\ Count(Opcodes(bc), OP_PUSH_ENV) = 1
    /\ Count(Opcodes(bc), OP_STORE_VAR) = 1
    /\ Len(bc) > 5

\* the text operands of the instructions of code from code[i] on
RECURSIVE TextsFrom(_, _)
TextsFrom(code, i) ==
    IF i > Len(code) THEN {}
    ELSE (IF code[i] \in {OP_PUSH_STR, OP_PUSH_VAR, OP_STORE_VAR, OP_SET_PROP, OP_GET_PROP}
             /\ i < Len(code)
          THEN {SubSeq(code, i + 2, i + 1 + code[i + 1])}
          ELSE {})
         \cup TextsFrom(code, i + InstrLen(code, i))

\* the source has a string literal or identifier longer than 255 bytes
HasLongText(toks) ==
    \E i \in 1..Len(toks) :
        toks[i].type \in {TOKEN_STRING, TOKEN_IDENTIFIER} /\ Len(toks[i].lexeme) > 255

\* C16: a string literal or identifier longer than 255 bytes makes compile abort
\* with its diagnostic: nothing is returned and nothing else happens; and in
\* what compile returns every length byte is followed by exactly the bytes of a
\* name or string of the source
C16_LongTextAborts ==
    /\ HasLongText(tokens) => pstate \in {"program", "block", "error"}
    /\ pstate = "done" =>
           /\ TextsFrom(bc, 1) \subseteq {tokens[i].lexeme : i \in 1..Len(tokens)}
           /\ Opcodes(bc)[Len(Opcodes(bc))] = OP_EXIT

\* (the length bytes of what compile returns are exact)
C16_LengthBytesExact ==
    pstate = "done" =>
        /\ TextsFrom(bc, 1) \subseteq {tokens[i].lexeme : i \in 1..Len(tokens)}
        /\ Opcodes(bc)[Len(Opcodes(bc))] = OP_EXIT

\* the target operand of the property instructions is there and is not an Object
SetTargetNotObject == Len(stack) >= 2 /\ stack[Len(stack) - 1].type # VAL_OBJECT

GetTargetNotObject == Len(stack) >= 1 /\ stack[Len(stack)].type # VAL_OBJECT

NonObjectTargetStep ==
    /\ (SET_PROP /\ SetTargetNotObject) \/ (GET_PROP /\ GetTargetNotObject) =>
            status' = "fatal" /\ heap' = heap /\ output' = output
    /\ status = "fatal" => status' = "fatal" /\ heap' = heap /\ output' = output

\* C17: GET_PROP and SET_PROP on a target that is not an Object end the run with a
\* fatal error; no object gains or changes a property and nothing is printed by
\* that step or after it.
C17_NonObjectTargetFatal == [][NonObjectTargetStep]_vars

\* an object holds a property and a SET_PROP with a Number as target has ended the run
C17_Witness ==
    /\ status = "fatal" /\ err = "set target not an object"
    /\ \E o \in 1..Len(heap) : heap[o].type = VAL_OBJECT /\ heap[o].prop_names # <<>>

\* the parser at the token k places after the current one, with nothing emitted
Ahead(k) == [ParserRec EXCEPT !.pos = pos + k, !.bc = <<>>]

\* the bytes a step of the compiler appends
Emitted == SubSeq(bc', Len(bc) + 1, Len(bc'))

\* the instruction  STORE_VAR name
StoreOf(name) == <<OP_STORE_VAR, Len(name)>> \o name

\* a step that compiles a var declaration to its end
CompilesDeclaration ==
    /\ pstate \in {"program", "block"} /\ pstate' \in {"program", "block"}
    /\ parser_check_keyword(ParserRec, KW_var)
    /\ pos' > pos

\* what the step emits: the initializer's code, or PUSH_UNDEFINED, and one store
DeclarationCode ==
    LET name == Cur(Ahead(1)).lexeme
    IN  /\ Count(Opcodes(Emitted), OP_STORE_VAR) = 1
        /\ IF CheckPunct(Ahead(2), 61)
           THEN /\ parse_expression(Ahead(3)).bc # <<>>
                /\ Emitted = parse_expression(Ahead(3)).bc \o StoreOf(name)
           ELSE Emitted = <<OP_PUSH_UNDEFINED>> \o StoreOf(name)

\* a step of vm_execute that executes a STORE_VAR and goes on
ExecutesStore ==
    /\ pstate = "executing" /\ status = "running" /\ status' = "running"
    /\ ip' > ip /\ Byte(ip) = OP_STORE_VAR

\* the values the expression statements before the declaration of name left on
\* the stack: one for each  y;  of the source, all before the declaration of x
DepthBefore(name) ==
    IF name # <<120>> THEN 0
    ELSE Cardinality({i \in 2..Len(tokens) - 1 :
                         /\ tokens[i].type = TOKEN_IDENTIFIER
                         /\ tokens[i - 1].lexeme = <<59>>
                         /\ tokens[i + 1].lexeme = <<59>>})

\* the declaration of name had no initializer
NoInitializer(name) ==
    \E i \in 2..Len(tokens) :
        /\ tokens[i].lexeme = name /\ tokens[i - 1].lexeme = KW_var
        /\ (i = Len(tokens) \/ tokens[i + 1].lexeme # <<61>>)

DeclarationDone ==
    LET name == Bytes(ip + 2, Byte(ip + 1))
    IN  /\ Binds(Machine', current_env', name)
        /\ NoInitializer(name) => BoundValue(Machine', current_env', name) = val_undefined
        /\ Len(stack') = DepthBefore(name)

DeclarationStep ==
    /\ CompilesDeclaration => DeclarationCode
    /\ ExecutesStore => DeclarationDone

\* C18: a var declaration that compiles emits exactly one STORE_VAR of the declared
\* name, preceded by the code of its initializer or, without one, by
\* PUSH_UNDEFINED; once the store has executed the current environment binds the
\* name (to Undefined without initializer) and the stack is as deep as it was
\* before the declaration.
C18_VarDeclarationStores == [][DeclarationStep]_vars

\* var y = 1; y; var x = "a";  has run: x is bound to a string and the value
\* that  y;  left is still the only one on the stack
C18_Witness ==
    /\ status = "exit" /\ Len(stack) = 1
    /\ Binds(Machine, 1, <<120>>)
    /\ BoundValue(Machine, 1, <<120>>).type = VAL_STRING

\* the index of the token after the bracket that closes d open ones from tokens[i] on
RECURSIVE MatchFrom(_, _)
MatchFrom(i, d) ==
    IF d = 0 \/ i > Len(tokens) THEN i
    ELSE IF tokens[i].type = TOKEN_PUNCTUATOR /\ tokens[i].lexeme[1] \in {40, 123}
    THEN MatchFrom(i + 1, d + 1)
    ELSE IF tokens[i].type = TOKEN_PUNCTUATOR /\ tokens[i].lexeme[1] \in {41, 125}
    THEN MatchFrom(i + 1, d - 1)
    ELSE MatchFrom(i + 1, d)

\* the index of the token after the primary of the grammar that starts at tokens[k]:
\* a bracketed primary ends with its closing bracket, any other is one token
PrimaryEnd(k) ==
    IF k > Len(tokens) THEN k
    ELSE IF tokens[k].type = TOKEN_PUNCTUATOR /\ tokens[k].lexeme[1] \in {40, 123}
    THEN MatchFrom(k + 1, 1)
    ELSE k + 1

\* where the primaries p1 .. pn of the chain that starts at tokens[k] start
RECURSIVE ChainStarts(_)
ChainStarts(k) ==
    LET e == PrimaryEnd(k)
    IN  IF e <= Len(tokens) /\ tokens[e].type = TOKEN_OPERATOR
        THEN <<k>> \o ChainStarts(e + 1)
        ELSE <<k>>

\* the code of the primary at tokens[k]
PrimaryCode(k) == parse_primary([ParserRec EXCEPT !.pos = k - 1, !.bc = <<>>]).bc

\* code(p1) code(p2) ADD ... code(pj) ADD
RECURSIVE LeftAssociative(_, _)
LeftAssociative(starts, j) ==
    IF j = 1 THEN PrimaryCode(starts[1])
    ELSE LeftAssociative(starts, j - 1) \o PrimaryCode(starts[j]) \o <<OP_ADD>>

\* the statement at the current token is  var x = e  or  print ( e
DeclaresWithInitializer ==
    /\ parser_check_keyword(ParserRec, KW_var)
    /\ parser_check(Ahead(1), TOKEN_IDENTIFIER) /\ CheckPunct(Ahead(2), 61)

PrintsExpression == parser_check_keyword(ParserRec, KW_print) /\ CheckPunct(Ahead(1), 40)

\* a step of the compiler over a statement that holds an expression
CompilesExpression ==
    /\ pstate \in {"program", "block"}
    /\ DeclaresWithInitializer \/ PrintsExpression

ExpressionCode ==
    LET starts == ChainStarts(IF DeclaresWithInitializer THEN pos + 4 ELSE pos + 3)
        n == Len(starts)
        rest == IF DeclaresWithInitializer THEN StoreOf(Cur(Ahead(1)).lexeme)
                ELSE <<OP_PRINT>>
    IN  /\ (\E j \in 2..n : tokens[starts[j] - 1].lexeme # <<43>>) => pstate' = "error"
        /\ pstate' \in {"program", "block"} => Emitted = LeftAssociative(starts, n) \o rest

ExprStart == IF DeclaresWithInitializer THEN pos + 4 ELSE pos + 3

\* the expression e compiled from the token after the opening parenthesis
Inner == parse_expression([ParserRec EXCEPT !.pos = ExprStart, !.bc = <<>>])

\* the expression of the statement is ( e ) and nothing more, and e compiles up
\* to the closing parenthesis
ParenthesisedExpression ==
    /\ CompilesExpression
    /\ ExprStart <= Len(tokens) /\ tokens[ExprStart].lexeme = <<40>>
    /\ Len(ChainStarts(ExprStart)) = 1
    /\ Ok(Inner) /\ Inner.pos = PrimaryEnd(ExprStart) - 2 /\ CheckPunct(Inner, 41)

\* the statement compiles to the code of e and the rest of the statement
CompilesAsInner ==
    /\ pstate' \in {"program", "block"}
    /\ Emitted = Inner.bc \o (IF DeclaresWithInitializer
                               THEN StoreOf(Cur(Ahead(1)).lexeme) ELSE <<OP_PRINT>>)

\* C20: a statement whose expression is ( e ) compiles like the statement with e
\* in its place, whatever token follows the closing parenthesis.
C20_ParenthesesTransparent == [][ParenthesisedExpression => CompilesAsInner]_vars

\* (it does when the token after the closing parenthesis is another `)`, as in
\* print((1)): the test of parse_primary compares the token after the one it consumed)
C20_WhenCloserFollows ==
    [][ParenthesisedExpression /\ CheckPunct(Ahead(PrimaryEnd(ExprStart) - 1 - pos), 41)
          => CompilesAsInner]_vars

\* the names p1 .. pn of the property accesses  .p1 ... .pn  from tokens[i] on
RECURSIVE PropertyChain(_)
PropertyChain(i) ==
    IF /\ i + 1 <= Len(tokens)
       /\ tokens[i].lexeme = <<46>> /\ tokens[i + 1].type = TOKEN_IDENTIFIER
    THEN <<tokens[i + 1].lexeme>> \o PropertyChain(i + 2)
    ELSE <<>>

\* the statement at the current token is  x.p1. ... .pn = e  with n >= 1
AssignsProperty ==
    /\ pstate \in {"program", "block"}
    /\ parser_check(ParserRec, TOKEN_IDENTIFIER)
    /\ PropertyChain(pos + 2) # <<>>
    /\ CheckPunct(Ahead(1 + 2 * Len(PropertyChain(pos + 2))), 61)

\* GET_PROP p1 ... GET_PROP pk
RECURSIVE GetProps(_, _)
GetProps(names, k) ==
    IF k = 0 THEN <<>>
    ELSE GetProps(names, k - 1) \o <<OP_GET_PROP, Len(names[k])>> \o names[k]

\* PUSH_VAR x, GET_PROP p1 .. GET_PROP p(n-1), code(e), SET_PROP pn
PropertyAssignmentCode ==
    LET names == PropertyChain(pos + 2)
        n == Len(names)
        e == parse_expression(Ahead(2 + 2 * n))
    IN  /\ pstate' \in {"program", "block"}
        /\ Emitted = <<OP_PUSH_VAR, Len(Cur(ParserRec).lexeme)>> \o Cur(ParserRec).lexeme
                        \o GetProps(names, n - 1) \o e.bc
                        \o <<OP_SET_PROP, Len(names[n])>> \o names[n]

\* C21: a statement  x.p1. ... .pn = e  compiles to PUSH_VAR x, GET_PROP p1 ..
\* GET_PROP p(n-1), code(e), SET_PROP pn, for every n >= 1.
C21_PropertyChainAssignment == [][AssignsProperty => PropertyAssignmentCode]_vars

\* (it does for n = 1, the one level parse_assignment looks at)
C21_OneLevel ==
    [][AssignsProperty /\ Len(PropertyChain(pos + 2)) = 1 => PropertyAssignmentCode]_vars

\* the tokens without the i-th
RemoveAt(toks, i) == SubSeq(toks, 1, i - 1) \o SubSeq(toks, i + 1, Len(toks))

\* the source without its i-th token compiles to the bytes this source compiled to
SameWithout(i) == Ok(compile(RemoveAt(tokens, i))) /\ compile(RemoveAt(tokens, i)).bc = bc

\* C22: every semicolon of a program that has one after each statement can be
\* removed without changing the bytecode compile returns.
C22_SemicolonsOptional ==
    pstate = "done" =>
        \A i \in 1..Len(tokens) : tokens[i].lexeme = <<59>> => SameWithout(i)

\* (a semicolon that is followed by the first token of a statement other than a
\* block, or by the end of the source, can be removed)
C22_BeforeAStatement ==
    pstate = "done" =>
        \A i \in 1..Len(tokens) :
            /\ tokens[i].lexeme = <<59>>
            /\ i < Len(tokens) => tokens[i + 1].type # TOKEN_PUNCTUATOR
            => SameWithout(i)

\* the token at the start of the statement about to be compiled is the keyword
\* function or return
AtFunctionOrReturn ==
    /\ pstate \in {"program", "block"}
    /\ parser_check_keyword(ParserRec, KW_function) \/ parser_check_keyword(ParserRec, KW_return)

NoCallNoReturn ==
    /\ AtFunctionOrReturn => pstate' = "error" /\ bc' = bc
    /\ pstate' = "done" =>
           Count(Opcodes(bc'), OP_CALL) = 0 /\ Count(Opcodes(bc'), OP_RET) = 0

\* C23: a statement that begins with the keyword function or return, at top level
\* or in a block, aborts the compilation and emits nothing; no buffer compile
\* returns holds a CALL or a RET instruction.
C23_FunctionAndReturnAbort == [][NoCallNoReturn]_vars

\* the compilation has aborted at a return that is the first statement of a block
C23_Witness ==
    /\ pstate = "error" /\ parser_check_keyword(ParserRec, KW_return)
    /\ tokens[pos].lexeme = <<123>>

\* what the instruction table of the specification has an instruction pop and push
Pops(op) ==
    IF op \in {OP_ADD, OP_SET_PROP} THEN 2
    ELSE IF op \in {OP_STORE_VAR, OP_GET_PROP, OP_PRINT} THEN 1
    ELSE 0

Pushes(op) ==
    IF op \in {OP_PUSH_NUM, OP_PUSH_STR, OP_PUSH_BOOL, OP_PUSH_UNDEFINED, OP_PUSH_NULL,
               OP_PUSH_VAR, OP_NEW_OBJECT, OP_ADD, OP_SET_PROP, OP_GET_PROP} THEN 1
    ELSE 0

\* a step of vm_execute from a running machine
Executes == pstate = "executing" /\ status = "running" /\ vars' # vars

\* the step leaves the values below the ones it pops where they were
PopsFromTheTop(k) ==
    /\ Len(stack') >= Len(stack) - k
    /\ SubSeq(stack', 1, Len(stack) - k) = SubSeq(stack, 1, Len(stack) - k)

StackDiscipline ==
    LET op == Byte(ip)
    IN  /\ Len(stack') <= STACK_SIZE
        /\ Executes =>
              /\ Len(stack) < Pops(op) => status' = "fatal" /\ err' = "stack underflow"
              /\ Len(stack) >= Pops(op) /\ Len(stack) - Pops(op) + Pushes(op) > STACK_SIZE
                    => status' = "fatal"
              /\ status' = "running" =>
                    /\ Len(stack') = Len(stack) - Pops(op) + Pushes(op)
                    /\ PopsFromTheTop(Pops(op))

\* C24: the operand stack never holds more than 64 values; an instruction that
\* would push onto a full stack and one that would pop from an empty one are
\* fatal; the values below the ones an instruction pops stay as they were pushed.
C24_StackBounds == [][StackDiscipline]_vars

\* a push onto a full stack has stopped the run
C24_Witness == status = "fatal" /\ err = "stack overflow" /\ Len(stack) = STACK_SIZE

\* the four bytes OP_CALL at ip reads as its offset lie inside the buffer
OffsetInBuffer == InBuf(ip + 2, 4)

CallStackDiscipline ==
    LET op == Byte(ip)
        n == Len(call_stack)
    IN  /\ Len(call_stack') <= CALL_STACK_SIZE
        /\ Executes /\ op = OP_CALL /\ OffsetInBuffer =>
              IF n = CALL_STACK_SIZE
              THEN status' = "fatal" /\ err' = "call stack overflow"
              ELSE Len(call_stack') = n + 1 /\ SubSeq(call_stack', 1, n) = call_stack
        /\ Executes /\ op = OP_RET =>
              IF n = 0
              THEN status' = "fatal" /\ err' = "nothing to return to"
              ELSE ip' = call_stack[n] /\ call_stack' = SubSeq(call_stack, 1, n - 1)
        /\ Executes /\ op \notin {OP_CALL, OP_RET} => call_stack' = call_stack

\* C25: the call stack never holds more than 16 return addresses; a CALL with 16
\* pending is a fatal overflow and a RET with none is fatal; a RET resumes at the
\* address pushed last and leaves the earlier ones in place.
C25_CallStackBounds == [][CallStackDiscipline]_vars

\* a CALL with 16 return addresses pending has stopped the run
C25_Witness ==
    status = "fatal" /\ err = "call stack overflow" /\ Len(call_stack) = CALL_STACK_SIZE

\* two nested calls have returned in the reverse order: the run is at the EXIT
\* after the first CALL with no address pending
NestedCallsReturned == status = "exit" /\ ip = 7 /\ call_stack = <<>> /\ Byte(7) = OP_CALL

\* the names of a name array are pairwise different
Distinct(names) == \A i, j \in 1..Len(names) : names[i] = names[j] => i = j

\* the name OP_STORE_VAR or OP_SET_PROP at ip carries
NameOperand == Bytes(ip + 2, Byte(ip + 1))

\* the step changes the value at index i of a value array and nothing else of it
ReplacesAt(old, new, i, val) ==
    /\ Len(new) = Len(old)
    /\ new[i] = val
    /\ \A j \in 1..Len(old) : j # i => new[j] = old[j]

StoreStep ==
    LET e == current_env
        names == envs[e].names
        val == stack[Len(stack)]
    IN  Executes /\ Byte(ip) = OP_STORE_VAR /\ stack # <<>> /\ e # NULL =>
            IF \E i \in 1..Len(names) : names[i] = NameOperand
            THEN /\ status' # "fatal"
                 /\ envs'[e].names = names
                 /\ ReplacesAt(envs[e].values, envs'[e].values,
                               IndexOf(names, NameOperand), val)
            ELSE IF Len(names) = MAX_VARS
            THEN status' = "fatal" /\ err' = "too many variables" /\ envs' = envs
            ELSE /\ envs'[e].names = Append(names, NameOperand)
                 /\ envs'[e].values = Append(envs[e].values, val)

BindingDiscipline ==
    /\ \A e \in 1..MaxEnvs :
           Len(envs'[e].names) <= MAX_VARS /\ Distinct(envs'[e].names)
    /\ StoreStep

\* C26: an environment holds at most 32 bindings, under pairwise different names;
\* a STORE_VAR of a name the current environment binds overwrites that binding in
\* place and leaves the number of bindings as it was, also in a full environment;
\* a STORE_VAR of a new name into a full environment is fatal.
C26_BindingBounds == [][BindingDiscipline]_vars

\* a binding of a full environment has been overwritten and the run goes on
C26_Witness ==
    /\ status # "fatal"
    /\ current_env # NULL
    /\ Len(envs[current_env].names) = MAX_VARS
    /\ envs[current_env].values[1].type = VAL_NUMBER

\* the names an object had are the first names it has after the step, in order
KeepsInsertionOrder(h) ==
    /\ Len(heap'[h].prop_names) >= Len(heap[h].prop_names)
    /\ SubSeq(heap'[h].prop_names, 1, Len(heap[h].prop_names)) = heap[h].prop_names

SetPropStep ==
    LET target == stack[Len(stack) - 1]
        obj == target.data
        names == heap[obj].prop_names
        val == stack[Len(stack)]
    IN  Executes /\ Byte(ip) = OP_SET_PROP /\ Len(stack) >= 2
            /\ target.type = VAL_OBJECT /\ ~heap[obj].freed =>
            IF \E i \in 1..Len(names) : names[i] = NameOperand
            THEN /\ status' # "fatal"
                 /\ heap'[obj].prop_names = names
                 /\ ReplacesAt(heap[obj].prop_values, heap'[obj].prop_values,
                               IndexOf(names, NameOperand), val)
            ELSE IF Len(names) = MAX_PROPS
            THEN status' = "fatal" /\ err' = "too many properties" /\ heap' = heap
            ELSE /\ heap'[obj].prop_names = Append(names, NameOperand)
                 /\ heap'[obj].prop_values = Append(heap[obj].prop_values, val)

PropertyDiscipline ==
    /\ \A h \in 1..Len(heap') :
           Len(heap'[h].prop_names) <= MAX_PROPS /\ Distinct(heap'[h].prop_names)
    /\ \A h \in 1..Len(heap) : KeepsInsertionOrder(h)
    /\ SetPropStep

\* C27: an Object holds at most 64 properties, under pairwise different names kept
\* in the order of their first insertion; a SET_PROP of a name the object has
\* replaces that property's value in place; a SET_PROP of a new name on a full
\* object is fatal.
C27_PropertyBounds == [][PropertyDiscipline]_vars

\* a property of a full object has been replaced and the run goes on
C27_Witness ==
    /\ status # "fatal"
    /\ \E h \in 1..Len(heap) :
           /\ Len(heap[h].prop_names) = MAX_PROPS
           /\ heap[h].prop_values[1].type = VAL_NUMBER

\* 1 when value v is a reference to heap object h
Refers(v, h) == IF IsRef(v) /\ v.data = h THEN 1 ELSE 0

\* the step goes on; the old value has lost one reference, the new value has the
\* one its slot holds and a value the instruction pushes the one vm_push takes;
\* nothing is deallocated, so the new value is allocated
OverwriteEffect(old, new, pushed) ==
    /\ status' \notin {"ub", "fatal"}
    /\ Len(heap') = Len(heap)
    /\ \A h \in 1..Len(heap) :
           /\ heap'[h].ref_count =
                  heap[h].ref_count - Refers(old, h) + Refers(new, h) + Refers(pushed, h)
           /\ heap'[h].freed = heap[h].freed
    /\ IsRef(new) => ~heap'[new.data].freed

OverwritesBinding ==
    /\ Executes /\ Byte(ip) = OP_STORE_VAR /\ stack # <<>> /\ current_env # NULL
    /\ \E i \in 1..Len(envs[current_env].names) :
           envs[current_env].names[i] = NameOperand

OverwritesProperty ==
    /\ Executes /\ Byte(ip) = OP_SET_PROP /\ Len(stack) >= 2
    /\ stack[Len(stack) - 1].type = VAL_OBJECT
    /\ ~heap[stack[Len(stack) - 1].data].freed
    /\ \E i \in 1..Len(heap[stack[Len(stack) - 1].data].prop_names) :
           heap[stack[Len(stack) - 1].data].prop_names[i] = NameOperand

OverwriteStep ==
    /\ OverwritesBinding =>
          /\ OverwriteEffect(BoundValue(Machine, current_env, NameOperand),
                             stack[Len(stack)], val_null)
          /\ envs'[current_env].values[IndexOf(envs[current_env].names, NameOperand)]
                = stack[Len(stack)]
    /\ OverwritesProperty =>
          LET obj == stack[Len(stack) - 1].data
              i == IndexOf(heap[obj].prop_names, NameOperand)
          IN  /\ OverwriteEffect(heap[obj].prop_values[i], stack[Len(stack)],
                                 stack[Len(stack) - 1])
              /\ heap'[obj].prop_values[i] = stack[Len(stack)]

\* C28: a STORE_VAR of a bound name and a SET_PROP of an existing property release
\* exactly one reference of the old value and leave the slot holding the new
\* value, which is allocated afterwards, also when both are the same heap object.
C28_OverwriteReleasesOld == [][OverwriteStep]_vars

\* o.a = o.a has been executed with a string as the value: the string is held by
\* the property and allocated
C28_Witness ==
    /\ status \notin {"ub", "fatal"}
    /\ bytecode = SelfSet /\ ip = Len(SelfSet)
    /\ heap[1].prop_values = <<[type |-> VAL_STRING, data |-> 2]>>
    /\ ~heap[2].freed

\* x = x has been executed with a string as the value
SelfStoreDone ==
    /\ status \notin {"ub", "fatal"}
    /\ bytecode = SelfStore /\ ip = Len(SelfStore)
    /\ envs[current_env].values = <<[type |-> VAL_STRING, data |-> 1]>>
    /\ ~heap[1].freed

\* an OP_POP_ENV step, of a buffer or of the instruction stream
PopsEnvironment ==
    /\ current_env # NULL
    /\ \/ Executes /\ Byte(ip) = OP_POP_ENV
       \/ pstate = "idle" /\ POP_ENV

\* the bindings of environment e that refer to heap object h
BindingsOf(e, h) ==
    Cardinality({i \in 1..Len(envs[e].values) : Refers(envs[e].values[i], h) = 1})

\* heap object h is a value of the operand stack or of an environment other than e
HeldOutside(e, h) ==
    \/ \E i \in 1..Len(stack) : Refers(stack[i], h) = 1
    \/ \E d \in 1..MaxEnvs : d # e /\ envs[d].alloc
           /\ \E i \in 1..Len(envs[d].values) : Refers(envs[d].values[i], h) = 1

PopEnvStep ==
    PopsEnvironment =>
        /\ status' \notin {"ub", "fatal"}
        /\ current_env' = envs[current_env].parent
        /\ stack' = stack
        /\ call_stack' = call_stack
        /\ \A d \in 1..MaxEnvs : d # current_env => envs'[d] = envs[d]
        /\ Len(heap') = Len(heap)
        /\ \A h \in 1..Len(heap) :
               /\ heap'[h].ref_count = heap[h].ref_count - BindingsOf(current_env, h)
               /\ HeldOutside(current_env, h) /\ ~heap[h].freed => ~heap'[h].freed

\* C29: POP_ENV makes the parent of the current environment current, releases one
\* reference for each binding of the environment it discards, and leaves the
\* operand stack, the call stack and the other environments as they were; an
\* object also held by the stack or by an outer binding stays allocated.
C29_PopEnvFrame == [][PopEnvStep]_vars

\* a block that bound y to the string of the outer x, and left that string on the
\* stack, has been left: the string is allocated and x still holds it
C29_Witness ==
    /\ status \notin {"ub", "fatal"}
    /\ bytecode = SharedScope /\ ip = Len(SharedScope)
    /\ current_env # NULL
    /\ envs[current_env].values = <<[type |-> VAL_STRING, data |-> 1]>>
    /\ stack = <<[type |-> VAL_STRING, data |-> 1]>>
    /\ ~heap[1].freed

\* what a sequence of opcodes adds to the depth of the operand stack when every
\* instruction goes on
RECURSIVE Net(_)
Net(ops) == IF ops = <<>> THEN 0 ELSE Pushes(Head(ops)) - Pops(Head(ops)) + Net(Tail(ops))

\* a step that compiles the statement at pos to its end
CompilesStatement ==
    /\ pstate \in {"program", "block"} /\ pstate' \in {"program", "block"}
    /\ pos' > pos

DeclaresVariable == parser_check_keyword(ParserRec, KW_var)

PrintsValue == parser_check_keyword(ParserRec, KW_print)

\* x = e
AssignsVariable == parser_check(ParserRec, TOKEN_IDENTIFIER) /\ CheckPunct(Ahead(1), 61)

\* x.p = e
AssignsOneProperty ==
    /\ parser_check(ParserRec, TOKEN_IDENTIFIER)
    /\ CheckPunct(Ahead(1), 46)
    /\ parser_check(Ahead(2), TOKEN_IDENTIFIER)
    /\ CheckPunct(Ahead(3), 61)

\* x  or  x.p  as a statement
ReadsBare ==
    /\ parser_check(ParserRec, TOKEN_IDENTIFIER)
    /\ ~AssignsVariable
    /\ ~AssignsOneProperty

\* the run has reached EXIT with the depth its instructions add up to
ExitDepth == status' = "exit" /\ status = "running" => Len(stack') = Net(Opcodes(bytecode))

StatementBalance ==
    /\ CompilesStatement =>
          /\ DeclaresVariable \/ PrintsValue \/ AssignsVariable \/ AssignsOneProperty
                => Net(Opcodes(Emitted)) = 0
          /\ ReadsBare => Net(Opcodes(Emitted)) = 1
    /\ ExitDepth

\* C30: the code of a var declaration, a print statement, an assignment x = e and
\* a property assignment x.p = e leaves the operand stack as deep as it was; the
\* code of a bare read leaves one value more; a run that reaches EXIT has the
\* depth its statements add up to, which is 0 without bare reads.
C30_StatementsBalanced == [][StatementBalance]_vars

StatementBalanceButProperty ==
    /\ CompilesStatement =>
          /\ DeclaresVariable \/ PrintsValue \/ AssignsVariable
                => Net(Opcodes(Emitted)) = 0
          /\ ReadsBare \/ AssignsOneProperty => Net(Opcodes(Emitted)) = 1
    /\ ExitDepth

\* (the code of a property assignment leaves one value more, as a bare read does;
\* the other statements are balanced)
C30_PropertyAssignmentLeavesOne == [][StatementBalanceButProperty]_vars

\* o.p = 2 at top level has run to EXIT without a bare read in the source: the
\* object is on the stack
PropertyAssignmentRan ==
    /\ status = "exit"
    /\ Count(Opcodes(bytecode), OP_SET_PROP) = 3
    /\ Count(Opcodes(bytecode), OP_GET_PROP) = 0
    /\ Count(Opcodes(bytecode), OP_PUSH_VAR) = 2
    /\ Len(stack) = 1 /\ stack[1].type = VAL_OBJECT

\* the bytes an emit call appends: one, sizeof(double), or a length byte and the text
CallSize(call) ==
    IF call.kind = "byte" THEN 1
    ELSE IF call.kind = "double" THEN 8
    ELSE 1 + Len(call.text)

\* the instructions the compiler emitted, from its emit calls: an emit_byte of
\* an opcode, with the emit_double or emit_string that follows it or, after
\* OP_PUSH_BOOL, the emit_byte of the value; at is the offset of the opcode
RECURSIVE EmittedFrom(_, _, _)
EmittedFrom(calls, i, at) ==
    IF i > Len(calls) THEN <<>>
    ELSE LET op == calls[i].num
             operand == i < Len(calls)
                          /\ (calls[i + 1].kind \in {"double", "string"} \/ op = OP_PUSH_BOOL)
             len == 1 + (IF operand THEN CallSize(calls[i + 1]) ELSE 0)
         IN  <<[op |-> op, operand |-> operand, at |-> at, len |-> len,
                arg |-> IF operand THEN calls[i + 1] ELSE calls[i]]>>
             \o EmittedFrom(calls, i + (IF operand THEN 2 ELSE 1), at + len)

EmittedInstructions == EmittedFrom(compile(tokens).calls, 1, 0)

\* what vm_execute reads at ip is the emitted instruction e: its opcode, and the
\* operand value as the VM decodes it
DecodesAs(e) ==
    /\ e.at = ip
    /\ InBuf(ip, e.len)
    /\ Byte(ip) = e.op
    /\ e.operand /\ e.arg.kind = "double" =>
           e.op = OP_PUSH_NUM /\ DoubleValue(Bytes(ip + 1, 8)) = e.arg.num
    /\ e.operand /\ e.arg.kind = "string" =>
           /\ e.op \in {OP_PUSH_STR, OP_PUSH_VAR, OP_STORE_VAR, OP_SET_PROP, OP_GET_PROP}
           /\ Bytes(ip + 2, Byte(ip + 1)) = e.arg.text
    /\ e.operand /\ e.arg.kind = "byte" => Byte(ip + 1) = e.arg.num
    /\ ~e.operand =>
           e.op \notin {OP_PUSH_NUM, OP_PUSH_STR, OP_PUSH_VAR, OP_STORE_VAR, OP_SET_PROP,
                        OP_GET_PROP, OP_PUSH_BOOL, OP_CALL}

\* a step of the run reads one emitted instruction where it was emitted, and ip
\* grows by the length emitted
DecodingStep ==
    /\ pstate' = "executing" => bytecode' = compile(tokens').bc
    /\ Executes =>
          /\ \E k \in 1..Len(EmittedInstructions) :
                 /\ DecodesAs(EmittedInstructions[k])
                 /\ status' # "fatal" => ip' = ip + EmittedInstructions[k].len
          /\ status' # "fatal" => ip' > ip
          /\ status' = "exit" => ip' = Len(bytecode)

\* the run goes on, or ends at EXIT or with a fatal error
DefinedStep == Executes => status' \in {"running", "exit", "fatal"}

EncodingStep == DecodingStep /\ DefinedStep

C31_DecodesWhatWasEmitted ==
    [][DecodingStep /\ (Executes /\ Byte(ip) # OP_ADD => DefinedStep)]_vars

\* print("ab"); has run to the final EXIT: PUSH_STR "ab" was emitted and printed
StringDecoded ==
    /\ pstate = "executing" /\ status = "exit" /\ ip = Len(bytecode)
    /\ output = <<<<97, 98>>>>
    /\ \E k \in 1..Len(EmittedInstructions) :
           /\ EmittedInstructions[k].op = OP_PUSH_STR
           /\ EmittedInstructions[k].arg.text = <<97, 98>>

----------------------------------------------------------------------------
(* vm_execute over hand-written buffers of calls and returns *)

\* instructions of a hand-written buffer
MaxPieces == 3

\* offsets a CALL jumps to: starts of instructions and bytes inside a CALL
Targets == {0, 1, 2, 6, 7, 12}

Pieces == {CallTo(t) : t \in Targets} \cup {<<OP_RET>>, <<OP_EXIT>>, <<OP_PUSH_NULL>>}

JumpPrograms == {Flatten(ps) : ps \in SeqsUpTo(Pieces, MaxPieces)} \ {<<>>}

InitJump ==
    /\ Holds(InitialMachine)
    /\ steps = 0 /\ scope_entry = <<>>
    /\ tokens = <<>> /\ pos = 0 /\ bc = <<>> /\ iters = 0 /\ LexerIdle
    /\ pstate = "executing"
    /\ bytecode \in JumpPrograms
    /\ ip = 0

SpecJump == InitJump /\ [][VmStep]_vars

\* vm_execute runs its loop as long as the loop can run
SpecJumpFair == SpecJump /\ WF_vars(VmStep)

----------------------------------------------------------------------------
(* The lexer over the characters of a source *)

\* The source of a Lexer L is the text before its terminator; source[pos] of the
\* code is L.source[L.pos + 1], and the terminator is at L.pos = Len(L.source).

is_whitespace(c) == c \in {32, 9, 10, 13}

is_digit(c) == c \in 48..57

is_alnum(c) == is_alpha(c) \/ is_digit(c) \/ c = 95 \/ c = 36

lexer_init(source) ==
    [source |-> source, pos |-> 0, line |-> 1, col |-> 1,
     current |-> NoLexer.current, st |-> "ok"]

\* source[pos] for a pos up to the terminator
lexer_peek(L) == IF L.pos < Len(L.source) THEN L.source[L.pos + 1] ELSE 0

lexer_consume(L) ==
    IF lexer_peek(L) = 10
    THEN [L EXCEPT !.pos = @ + 1, !.line = @ + 1, !.col = 1]
    ELSE [L EXCEPT !.pos = @ + 1, !.col = @ + 1]

\* while (the next character is one of chars) lexer_consume
RECURSIVE ConsumeWhile(_, _)
ConsumeWhile(L, chars) ==
    IF lexer_peek(L) \in chars THEN ConsumeWhile(lexer_consume(L), chars) ELSE L

\* every character but the terminator
NonNul == 1..255

\* the loop of lexer_skip_whitespace over a block comment, after its /*
RECURSIVE BlockComment(_)
BlockComment(L) ==
    IF lexer_peek(L) = 0 THEN L
    ELSE IF lexer_peek(L) = 42
    THEN LET L1 == lexer_consume(L)
         IN  IF lexer_peek(L1) = 47 THEN lexer_consume(L1) ELSE BlockComment(L1)
    ELSE BlockComment(lexer_consume(L))

RECURSIVE lexer_skip_whitespace(_)
lexer_skip_whitespace(L) ==
    LET L1 == ConsumeWhile(L, {c \in NonNul : is_whitespace(c)})
        L2 == lexer_consume(L1)
    IN  IF lexer_peek(L1) # 47 THEN L1
        ELSE IF lexer_peek(L2) = 47
        THEN lexer_skip_whitespace(ConsumeWhile(L2, NonNul \ {10}))
        ELSE IF lexer_peek(L2) = 42
        THEN lexer_skip_whitespace(BlockComment(lexer_consume(L2)))
        ELSE [L2 EXCEPT !.pos = @ - 1, !.col = @ - 1]

\* strncpy(token->lexeme, &source[start], len); token->lexeme[len] = '\0' with
\* len = pos - start: the bytes written into the MAX_TOKEN_LEN bytes of lexeme;
\* a write past them is undefined
CopyLexeme(L, start, type) ==
    LET len == L.pos - start
    IN  [L EXCEPT !.current.lexeme = SubSeq(L.source, start + 1, start + len),
                  !.current.type = type,
                  !.st = IF len > MAX_TOKEN_LEN - 1 THEN "ub" ELSE @]

lexer_number(L) ==
    CopyLexeme(ConsumeWhile(L, {c \in NonNul : is_digit(c) \/ c = 46}), L.pos,
               TOKEN_NUMBER)

\* the last lexer_consume is made whether or not a closing quote was found
lexer_string(L) ==
    LET L1 == lexer_consume(L)
        L2 == CopyLexeme(ConsumeWhile(L1, NonNul \ {34}), L1.pos, TOKEN_STRING)
    IN  [L2 EXCEPT !.pos = @ + 1, !.col = @ + 1]

lexer_identifier(L) ==
    LET L1 == ConsumeWhile(L, {c \in NonNul : is_alnum(c)})
        text == SubSeq(L.source, L.pos + 1, L1.pos)
    IN  CopyLexeme(L1, L.pos, IF is_keyword(text) THEN TOKEN_KEYWORD
                              ELSE TOKEN_IDENTIFIER)

\* token->type = type; token->lexeme[0] = lexer_consume(lexer)
OneChar(L, type) ==
    [lexer_consume(L) EXCEPT !.current.type = type,
                             !.current.lexeme = <<lexer_peek(L)>>]

\* lexer_next_token; a call with pos past the terminator reads outside the source
lexer_next_token(L) ==
    IF L.st # "ok" THEN L
    ELSE IF L.pos > Len(L.source) THEN [L EXCEPT !.st = "ub"]
    ELSE LET L1 == lexer_skip_whitespace([L EXCEPT !.current.line = L.line,
                                                  !.current.col = L.col])
             c == lexer_peek(L1)
             L2 == lexer_identifier(L1)
             word == L2.current.lexeme
         IN  IF c = 0
             THEN [L1 EXCEPT !.current.type = TOKEN_EOF, !.current.lexeme = <<>>]
             ELSE IF is_digit(c) THEN lexer_number(L1)
             ELSE IF c = 34 THEN lexer_string(L1)
             ELSE IF c \in {43, 45, 42, 47} THEN OneChar(L1, TOKEN_OPERATOR)
             ELSE IF c \in {61, 59, 40, 41, 123, 125, 46, 58, 44}
             THEN OneChar(L1, TOKEN_PUNCTUATOR)
             ELSE IF is_alpha(c) \/ c = 95 \/ c = 36
             THEN IF word \in {TXT_true, TXT_false}
                  THEN [L2 EXCEPT !.current.type = TOKEN_BOOLEAN]
                  ELSE IF word = TXT_undefined
                  THEN [L2 EXCEPT !.current.type = TOKEN_UNDEFINED]
                  ELSE IF word = TXT_null THEN [L2 EXCEPT !.current.type = TOKEN_NULL]
                  ELSE L2
             ELSE OneChar(L1, TOKEN_OPERATOR)

\* pieces of a source text
MaxParts == 2

\* n bytes c
Run(c, n) == [i \in 1..n |-> c]

\* 1.5  x$1  var  true  "ab"  "ab (no closing quote)  +  ;  #  a space, a new
\* line, //c and its line end, /*c*/, /*c (not closed), a lone /, and a number,
\* a name and a string of 63 and of 64 characters
Parts ==
    {<<49, 46, 53>>, <<120, 36, 49>>, KW_var, TXT_true, <<34, 97, 98, 34>>,
     <<34, 97, 98>>, <<43>>, <<59>>, <<35>>, <<32>>, <<10>>, <<47, 47, 99, 10>>,
     <<47, 42, 99, 42, 47>>, <<47, 42, 99>>, <<47>>}
    \cup {Run(c, n) : c \in {49, 97}, n \in {MAX_TOKEN_LEN - 1, MAX_TOKEN_LEN}}
    \cup {<<34>> \o Run(97, n) \o <<34>> : n \in {MAX_TOKEN_LEN - 1, MAX_TOKEN_LEN}}

LexSources == {Flatten(ps) : ps \in SeqsUpTo(Parts, MaxParts)}

\* the lexer after lexer_init on a source, the rest of the program not started
InitLex ==
    /\ VmInit /\ ParserIdle /\ bytecode = <<>> /\ ip = 0
    /\ \E source \in LexSources : lexer = lexer_init(source)

\* a call of lexer_next_token(lexer, &lexer->current), as parser_init and
\* parser_match make it
NextToken ==
    /\ lexer.st = "ok"
    /\ lexer' = lexer_next_token(lexer)
    /\ UNCHANGED <<vmvars, steps, scope_entry, bytecode, ip, tokens, pos, bc, pstate,
                   iters>>

SpecLex == InitLex /\ [][NextToken]_vars

----------------------------------------------------------------------------
(* The environment chain during the execution of compiled code *)

\* how many instructions with this opcode the run has executed: compiled code has
\* no jump, so they are the ones emitted before ip
Executed(op) ==
    Cardinality({k \in 1..Len(EmittedInstructions) :
                     EmittedInstructions[k].op = op /\ EmittedInstructions[k].at < ip})

\* the environment vm_init created
GlobalEnv == 1

EnvChain == Chain(Machine, current_env)

\* C32: at every point of the execution of a buffer compile returned the current
\* environment exists, the chain of parents from it ends at the global
\* environment vm_init created, its length is 1 plus the PUSH_ENV executed minus
\* the POP_ENV executed, and it is 1 when EXIT is reached.
C32_EnvironmentChain ==
    pstate = "executing" /\ bytecode = compile(tokens).bc =>
        /\ current_env # NULL
        /\ envs[current_env].alloc
        /\ EnvChain[Len(EnvChain)] = GlobalEnv
        /\ envs[GlobalEnv].parent = NULL
        /\ status \in {"running", "exit"} =>
               Len(EnvChain) = 1 + Executed(OP_PUSH_ENV) - Executed(OP_POP_ENV)
        /\ status = "exit" => EnvChain = <<GlobalEnv>>

\* EXIT is reached after a block was entered and left
BlockLeft ==
    /\ pstate = "executing" /\ status = "exit"
    /\ Executed(OP_PUSH_ENV) >= 1
    /\ Executed(OP_POP_ENV) = Executed(OP_PUSH_ENV)
    /\ EnvChain = <<GlobalEnv>>

\* the run is inside a block
InsideBlock ==
    /\ pstate = "executing" /\ status = "running"
    /\ Executed(OP_PUSH_ENV) = Executed(OP_POP_ENV) + 1
    /\ Len(EnvChain) = 2

----------------------------------------------------------------------------
(* Termination of vm_execute, under SpecJumpFair *)

\* the instruction the VM stopped in has an operand that runs past the end of the
\* buffer (ip is then just after its opcode)
OperandPastEnd ==
    /\ status = "ub" /\ InBuf(ip - 1, 1)
    /\ \/ Byte(ip - 1) = OP_PUSH_NUM /\ ~InBuf(ip, 8)
       \/ Byte(ip - 1) = OP_CALL /\ ~InBuf(ip + 1, 4)
       \/ Byte(ip - 1) = OP_PUSH_BOOL /\ ~InBuf(ip, 1)
       \/ /\ Byte(ip - 1) \in {OP_PUSH_STR, OP_PUSH_VAR, OP_STORE_VAR, OP_SET_PROP,
                               OP_GET_PROP}
          /\ ~(InBuf(ip, 1) /\ InBuf(ip + 1, Byte(ip)))

\* vm_execute has returned at EXIT or past the end, or the process has exited
Halted == status \in {"exit", "returned", "fatal"}

\* C33: vm_execute halts on every finite buffer, also on hand-written ones that
\* CALL and RET to arbitrary offsets inside the buffer: every execution reaches
\* EXIT, runs off the end of the buffer or stops with a fatal error (or stops in
\* an instruction whose operand is cut short by the end of the buffer).
C33_Halts == <>(Halted \/ OperandPastEnd)

RecursionStopped ==
    /\ status = "fatal" /\ err = "call stack overflow"
    /\ Len(call_stack) = CALL_STACK_SIZE

----------------------------------------------------------------------------
(* The lexer's position and token buffer, under SpecLex *)

\* C34: the lexer never moves past the end of the source: in every state
\* 0 <= pos <= length(source); after a string literal with no closing quote pos
\* is at the terminator (and the next token requested is end-of-input).
C34_PosInSource == 0 <= lexer.pos /\ lexer.pos <= Len(lexer.source)

\* the current token is a string literal that runs to the end of the input: its
\* lexeme is the text after the last quote of the source
OpenString ==
    /\ lexer.current.type = TOKEN_STRING
    /\ \E k \in 1..Len(lexer.source) :
           /\ lexer.source[k] = 34
           /\ lexer.current.lexeme = SubSeq(lexer.source, k + 1, Len(lexer.source))
           /\ \A i \in 1..Len(lexer.current.lexeme) : lexer.current.lexeme[i] # 34

\* (pos is inside the source or at its terminator in every state but the ones
\* after a string literal with no closing quote, where it is one past the
\* terminator; the next request then reads outside the source)
C34_PastEndAfterOpenString ==
    /\ 0 <= lexer.pos /\ lexer.pos <= Len(lexer.source) + 1
    /\ lexer.pos = Len(lexer.source) + 1 => OpenString
    /\ lexer.st = "ub" /\ Len(lexer.current.lexeme) < MAX_TOKEN_LEN
           => lexer.pos = Len(lexer.source) + 1

\* C35: every token the lexer produces has a lexeme of at most 63 bytes, so that
\* it fits the 64 bytes of Token.lexeme with its terminator.
C35_LexemeFits == Len(lexer.current.lexeme) <= MAX_TOKEN_LEN - 1

\* the text of the source the current token was copied from
TokenText ==
    \E k \in 0..Len(lexer.source) :
        lexer.current.lexeme = SubSeq(lexer.source, k + 1, k + Len(lexer.current.lexeme))

\* (a lexeme is the whole text of its number, name or string, however long; the
\* ones of 64 bytes and more were written past the end of the token buffer)
C35_WholeTextCopied ==
    /\ TokenText
    /\ lexer.st = "ok" => Len(lexer.current.lexeme) <= MAX_TOKEN_LEN - 1
    /\ Len(lexer.current.lexeme) > MAX_TOKEN_LEN - 1 => lexer.st = "ub"

============================================================================
